---- MODULE Spec2Model ----
(***************************************************************************)
(* Model of the InvisiAI request layer.                                    *)
(*                                                                         *)
(*   SpecStt      one transcription call: fetchSTT (with the Speechmatics  *)
(*                poll loop and the three-step AssemblyAI handler) or      *)
(*                ultraFastSTT on top of ultraFastFetch.                   *)
(*   SpecSession  the useCompletion hook: submit, handleScreenshotSubmit,  *)
(*                cancel, reset, the streaming loops and the speech        *)
(*                handler that feeds submit.                               *)
(*   SpecSubmit   the same hook while the provider settings change under   *)
(*                it.                                                      *)
(*   SpecVoice    the same hook fed by the voice input with its pause.     *)
(*   SpecRequest  the request fetchSTT and ultraFastSTT build for a        *)
(*                descriptor, and the field-path accessors.                *)
(*   SpecPool     the connection pool: ultraFastFetch, ultraWarmConnection *)
(*                and the cleanup interval.                                *)
(*   SpecCache    the response cache: cacheResponse, getCachedResponse.    *)
(*   SpecFullCache  the same cache starting with CacheLimit entries.       *)
(*   SpecSettings the provider settings: loadData, the selection setters,  *)
(*                the effects of useSettings and the model listing.        *)
(*   SpecGuard    the provider settings under setter calls of any consumer *)
(*                of the context and under the error boundary.             *)
(*   SpecDecoder  the streaming decoder behind fetchAIResponse and the loop *)
(*                of submit that consumes its deltas.                      *)
(*   SpecNotes    the notes: saveNote, updateNote, deleteNote.             *)
(*   SpecFiles    the list of attached files: selection, paste, manual     *)
(*                screenshot, removal.                                     *)
(*   SpecStore    the items of the local storage: the writers of the       *)
(*                settings, notes and PDFs, and clearAllAppData.           *)
(*                                                                         *)
(* Every await of the source is a step: the request is issued by one       *)
(* action and its answer is handled by the next.                           *)
(***************************************************************************)
EXTENDS Integers, Sequences, FiniteSets, TLC

\* ------------------------------------------------------------------ bounds
MaxPolls == 3
MaxCalls == 2
MaxChunks == 1
MaxAdvances == 2
MaxRequests == 2
MaxStores == 1
MaxStream == 6
MaxNotes == 3
MaxClock == 1
MaxSelect == 2
MaxAttached == 7

VARIABLES
    \* one transcription call
    entry,              \* "fetchSTT" | "ultraFastSTT" | "none"
    provider,           \* the STT descriptor handed to the call
    pc,                 \* position of the call
    result,             \* what the call handed to its caller
    sent,               \* the requests issued so far, in order
    polls,              \* classification of every poll answer so far
    failures,           \* requests that ended in a rejection or a non-2xx status
    rejCause,           \* cause of the rejection that ended the call, or "none"
    timerArmed,         \* ultraFastFetch's 2 s timer is pending
    pool,               \* origins that hold a CONNECTION_POOL entry
    \* the completion session
    config,             \* state of selectedAIProvider as submit sees it
    abortControllerRef, \* id of abortControllerRef.current, 0 for null
    abortedCtl,         \* controllers whose abort() was called
    calls,              \* every call started in the session
    nCalls,             \* number of calls started
    response,           \* state.response: the deltas shown, each tagged by its call
    isLoading,          \* state.isLoading
    error,              \* state.error, "" for null
    conversationHistory,\* state.conversationHistory: the calls saved, in order
    cancelledAt,        \* where the transcription call was when the user last
                        \* cancelled, "none" since the last call was started
    heard,              \* the segments of the transcript the vendor delivered
    job,                \* what the vendor handed out for the job and what the
                        \* requests referred to
    \* the request builder and the field-path accessor
    request,            \* the request the last builder run produced
    accessed,           \* the last setByPath/getByPath round trip
    \* the connection pool and the response cache
    now,                \* Date.now(), in ms since the module was loaded
    nextCleanup,        \* when the cleanup interval is due next
    advances,           \* how often the clock has moved
    CONNECTION_POOL,    \* origin -> pool entry
    requests,           \* every request ultraFastFetch and ultraWarmConnection made
    nextCtl,            \* id of the next AbortController
    abortedControllers, \* controllers whose abort() was called
    RESPONSE_CACHE,     \* the cache entries, one per key
    stores,             \* number of cacheResponse calls
    lookup,             \* the last getCachedResponse call and what it returned
    \* the provider settings
    mounted,            \* AppProvider has run its mount effect
    storage,            \* the items of the local storage the settings use
    customAiProviders,  \* the custom AI descriptors loaded from the storage
    selectedAIProvider, \* {provider, apiKey, model}
    selectedSttProvider,\* {provider, apiKey, model}
    prevAIProviderRef,  \* the AI provider the switching effect saw last
    listing,            \* the last model listing and what was stored for it
    lastStep,           \* the handler that ran last
    loaded,             \* what the last loadData() found as AI selection
    lastArg,            \* the argument of the last setter call or catch
    boundaryItem,       \* the item under 'selected-ai-provider'
    \* the items of the local storage
    localStorage,       \* the keys that hold an item
    lastOp,             \* the operation on the items that ran last
    notes,              \* the notes of the 'app_notes' item, in order
    clock,              \* Date.now() as the notes module reads it
    \* one streamed answer
    stream,             \* the characters the vendor sends
    pos,                \* how many of them the reads have delivered
    buffer,             \* the incomplete remainder the decoder keeps
    deltas,             \* the text deltas yielded so far, in order
    fullResponse,       \* the text the consumer has put together
    splitRead,          \* some read ended inside a frame
    closed,             \* the stream was closed
    \* the voice input
    isPaused,           \* the user paused the voice input
    resumed,            \* a pause has been lifted
    \* the attached files
    attachedFiles,      \* state.attachedFiles, each file by where it came from
    pendingFiles        \* how many addFile calls are still processing

sttVars == <<entry, provider, pc, result, sent, polls, failures, rejCause,
             timerArmed, pool, heard, job>>
sessionVars == <<config, abortControllerRef, abortedCtl, calls, nCalls,
                 response, isLoading, error, conversationHistory>>
reqVars == <<request, accessed>>
poolVars == <<now, nextCleanup, advances, CONNECTION_POOL, requests, nextCtl,
              abortedControllers, RESPONSE_CACHE, stores, lookup>>
setVars == <<mounted, storage, customAiProviders, selectedAIProvider,
             selectedSttProvider, prevAIProviderRef, listing, lastStep,
             loaded, lastArg, boundaryItem>>
storeVars == <<localStorage, lastOp, notes, clock>>
decVars == <<stream, pos, buffer, deltas, fullResponse, splitRead, closed>>
vadVars == <<isPaused, resumed>>
filesVars == <<attachedFiles, pendingFiles>>
uiVars == <<vadVars, filesVars>>
otherVars == <<reqVars, poolVars, setVars, storeVars, decVars, uiVars>>
vars == <<sttVars, sessionVars, cancelledAt, otherVars>>

\* -------------------------------------------------------------------- text
\* A text is a sequence of characters.
Texts == {<<>>, <<"a">>, <<" ", "a">>, <<"b", " ">>}
Segments == {<<>>, <<<<"a">>>>, <<<<"a">>, <<"b">>>>, <<<<"a", " ">>, <<"b">>>>}

RECURSIVE TrimStart(_)
TrimStart(t) == IF t # <<>> /\ Head(t) = " " THEN TrimStart(Tail(t)) ELSE t

RECURSIVE TrimEnd(_)
TrimEnd(t) ==
    IF t # <<>> /\ t[Len(t)] = " " THEN TrimEnd(SubSeq(t, 1, Len(t) - 1)) ELSE t

\* String.prototype.trim
trim(t) == TrimEnd(TrimStart(t))

\* Array.prototype.join(" ")
RECURSIVE joinSpace(_)
joinSpace(segs) ==
    IF segs = <<>> THEN <<>>
    ELSE IF Len(segs) = 1 THEN segs[1]
    ELSE segs[1] \o <<" ">> \o joinSpace(Tail(segs))

\* -------------------------------------------------------------------- HTTP
Statuses == {200, 202, 401, 404, 500}

\* Response.ok
Ok(status) == status \in 200..299

StatusText(status) ==
    CASE status = 200 -> "OK"
      [] status = 202 -> "Accepted"
      [] status = 401 -> "Unauthorized"
      [] status = 404 -> "Not Found"
      [] status = 500 -> "Internal Server Error"
      [] OTHER -> ""

\* What fetch rejects with: an Error instance or another value (the Tauri
\* plugin rejects with whatever the native side reports), and why: the network
\* failed, or the HTTP client underneath gave up waiting.
Rejections == [isError : BOOLEAN, cause : {"network", "timeout"}]

\* fetchError instanceof Error ? fetchError.message : "Unknown error"
ErrorMessage(rej) == IF rej.isError THEN rej.cause ELSE "Unknown error"

\* A non-2xx answer: the body may or may not be readable, and may be empty.
ErrorAnswers ==
    {[status |-> s, readable |-> r, errText |-> e] :
        s \in {x \in Statuses : ~Ok(x)}, r \in BOOLEAN, e \in {"", "body"}}

\* try { errorText = await response.text() } catch {}
ErrorText(ans) == IF ans.readable THEN ans.errText ELSE ""

\* ----------------------------------------------------------------- results
\* What a call hands to its caller: a returned string or a raised exception.
\* A string built from a template keeps the template's parts apart.
Mk(how, tag, status, statusText, msg, body, text) ==
    [how |-> how, tag |-> tag, status |-> status, statusText |-> statusText,
     msg |-> msg, body |-> body, text |-> text]

NoResult == Mk("pending", "", 0, "", "", "", <<>>)

\* return `${tag}: ${msg}`
Ret(tag, msg) == Mk("return", tag, 0, "", msg, "", <<>>)

\* return `${tag}: ${status} ${statusText}${errorText ? ` - ${errorText}` : ""}`
RetHttp(tag, ans) ==
    Mk("return", tag, ans.status, StatusText(ans.status), "", ErrorText(ans), <<>>)

\* return the text
RetText(text) == Mk("return", "", 0, "", "", "", text)

\* throw new Error(`${tag}: ${status}`), or an error rethrown
Throw(tag, status, msg) == Mk("throw", tag, status, "", msg, "", <<>>)

\* ------------------------------------------------------------- descriptors
SttIds == {"assemblyai-stt", "speechmatics-stt", "groq-whisper", "openai-whisper"}
BodyTypes == {"formdata", "json", "raw"}
NoProvider == [id |-> "", bodyType |-> "", textResponse |-> FALSE]
Providers ==
    [id : SttIds, bodyType : BodyTypes \cup {"xml", "unknown"},
     textResponse : BOOLEAN]

Origin(p) ==
    CASE p.id = "assemblyai-stt" -> "https://api.assemblyai.com"
      [] p.id = "speechmatics-stt" -> "https://asr.api.speechmatics.com"
      [] p.id = "groq-whisper" -> "https://api.groq.com"
      [] OTHER -> "https://api.openai.com"

Request(req, body) == [req |-> req, body |-> body]

\* ------------------------------------------------------- one transcription
\* upload_url: what the upload answered; audio_url: what the submit request
\* referred to; id: the job id the submit answered; polled: the id in the URL
\* of the status requests; reason: what the vendor reported with a failure.
NoJob == [upload_url |-> "", audio_url |-> "", id |-> "", polled |-> "",
          reason |-> ""]
UploadUrls == {"cdn/1", "cdn/2"}
JobIds == {"j1", "j2"}

\* A submission that names no uploaded audio.
TranscriptPayloadWithoutAsset(audioUrl) ==
    [audio_url |-> "", speech_model |-> "best", language_code |-> "en_us"]

\* The body of the AssemblyAI job submission.
TranscriptPayload(audioUrl) ==
    [audio_url |-> audioUrl, speech_model |-> "best", language_code |-> "en_us"]

SttIdle ==
    /\ entry = "none" /\ provider = NoProvider /\ pc = "idle"
    /\ result = NoResult /\ sent = <<>> /\ polls = <<>> /\ failures = <<>>
    /\ rejCause = "none" /\ timerArmed = FALSE /\ pool = {} /\ heard = <<>>
    /\ job = NoJob

SessionKeep == UNCHANGED <<sessionVars, cancelledAt, otherVars>>
CallKeep == UNCHANGED <<entry, provider>>
HeardKeep == UNCHANGED heard
JobKeep == UNCHANGED job

\* A call that hands its value to the caller and stays in the poll loop.
FinishAndPollOn(r) == pc' = "sm_sleep" /\ result' = r

\* The call ends: the value goes to the caller.
Finish(r) == pc' = "done" /\ result' = r

\* A request is issued.
Issue(req, body) == sent' = Append(sent, Request(req, body))

\* A request ended in a rejection or in a non-2xx status.
Failure(req, status, body) ==
    [req |-> req, status |-> status, body |-> body, nSent |-> Len(sent)]
Rejected(req) == failures' = Append(failures, Failure(req, 0, ""))
Refused(req, ans) ==
    failures' = Append(failures, Failure(req, ans.status, ErrorText(ans)))

Poll(class) == polls' = Append(polls, class)

\* fetchSTT up to its first request: the provider check, the AssemblyAI
\* branch, the body built by body type.
fetchSTT ==
    /\ entry = "fetchSTT" /\ pc = "start"
    /\ IF provider = NoProvider
       THEN Finish(Ret("Provider not provided", "")) /\ UNCHANGED sent
       ELSE IF provider.id = "assemblyai-stt"
       THEN pc' = "aai_upload" /\ Issue("upload", "raw") /\ UNCHANGED result
       ELSE IF provider.bodyType \in BodyTypes
       THEN pc' = "main" /\ Issue("main", provider.bodyType) /\ UNCHANGED result
       ELSE Finish(Ret("Unsupported body type", provider.bodyType))
            /\ UNCHANGED sent
    /\ UNCHANGED <<polls, failures, rejCause, timerArmed, pool>>
    /\ CallKeep /\ HeardKeep /\ JobKeep /\ SessionKeep

\* The answer to fetchSTT's request.
fetchSTT_response ==
    /\ entry = "fetchSTT" /\ pc = "main"
    /\ \/ \E rej \in Rejections :
            /\ Finish(Ret("Network error during API request", ErrorMessage(rej)))
            /\ Rejected("main") /\ rejCause' = rej.cause
            /\ UNCHANGED <<sent, polls>> /\ JobKeep
       \/ \E ans \in ErrorAnswers :
            /\ Finish(RetHttp("API request failed", ans))
            /\ Refused("main", ans)
            /\ UNCHANGED <<sent, polls, rejCause>> /\ JobKeep
       \/ /\ provider.textResponse
          /\ \/ \E text \in Texts : Finish(RetText(trim(text)))
             \/ Finish(Ret("Failed to read text response", "read error"))
          /\ UNCHANGED <<sent, polls, failures, rejCause>> /\ JobKeep
       \/ /\ ~provider.textResponse
          /\ Finish(Ret("Failed to parse JSON response", "parse error"))
          /\ UNCHANGED <<sent, polls, failures, rejCause>> /\ JobKeep
       \/ /\ ~provider.textResponse /\ provider.id = "speechmatics-stt"
          /\ \/ /\ Finish(Ret("Job ID not found in response", ""))
                /\ UNCHANGED sent /\ JobKeep
             \/ /\ pc' = "sm_poll" /\ Issue("poll", "none") /\ UNCHANGED result
                /\ \E jobId \in JobIds :
                      job' = [job EXCEPT !.id = jobId, !.polled = jobId]
          /\ UNCHANGED <<polls, failures, rejCause>>
       \/ /\ ~provider.textResponse /\ provider.id # "speechmatics-stt"
          /\ \E content \in Texts : Finish(RetText(trim(content)))
          /\ UNCHANGED <<sent, polls, failures, rejCause>> /\ JobKeep
    /\ UNCHANGED <<timerArmed, pool>>
    /\ CallKeep /\ HeardKeep /\ SessionKeep

\* The job statuses a vendor may report.
SpeechmaticsStatuses == {"running", "done", "rejected", "failed"}
AssemblyStatuses == {"queued", "processing", "completed", "error"}

\* How the Speechmatics loop reads transJson.job.status.
SpeechmaticsClass(status) ==
    IF status = "done" THEN "success"
    ELSE IF status = "rejected" \/ status = "failed" THEN "failure"
    ELSE "continue"

\* A loop that also polls again after a server error.
NotYetFoundOrServerError(status) == status = 404 \/ status = 202 \/ status = 500

\* The non-2xx poll answers the Speechmatics loop polls again on.
NotYetFound(status) == status = 404 \/ status = 202

\* One tick of the Speechmatics poll loop: the answer to the transcript request.
speechmaticsPoll ==
    /\ entry = "fetchSTT" /\ pc = "sm_poll"
    /\ \/ \E rej \in Rejections :
            /\ Finish(Ret("Network error during polling", ErrorMessage(rej)))
            /\ Rejected("poll") /\ rejCause' = rej.cause /\ Poll("network")
            /\ HeardKeep /\ JobKeep
       \/ \E ans \in ErrorAnswers :
            /\ IF NotYetFound(ans.status)
               THEN pc' = "sm_sleep" /\ Poll("notfound") /\ UNCHANGED result
               ELSE Finish(RetHttp("Polling failed", ans)) /\ Poll("http")
            /\ Refused("poll", ans) /\ UNCHANGED rejCause /\ HeardKeep /\ JobKeep
       \/ /\ Finish(Ret("Failed to parse polling response", "parse error"))
          /\ Poll("unparsable") /\ UNCHANGED <<failures, rejCause>> /\ HeardKeep
          /\ JobKeep
       \/ \E status \in SpeechmaticsStatuses, segs \in Segments, wellFormed \in BOOLEAN :
            /\ UNCHANGED <<failures, rejCause>>
            /\ CASE SpeechmaticsClass(status) = "success" /\ wellFormed ->
                      /\ Finish(RetText(trim(joinSpace(segs))))
                      /\ Poll(status) /\ heard' = segs /\ JobKeep
                 [] SpeechmaticsClass(status) = "success" /\ ~wellFormed ->
                      /\ Finish(Ret("Error in fetchSTT", "TypeError"))
                      /\ Poll("malformed") /\ HeardKeep /\ JobKeep
                 [] SpeechmaticsClass(status) = "failure" ->
                      /\ Finish(Ret("Transcription job failed", status))
                      /\ Poll(status) /\ HeardKeep
                      /\ job' = [job EXCEPT !.reason = status]
                 [] OTHER ->
                      /\ pc' = "sm_sleep" /\ UNCHANGED result
                      /\ Poll(status) /\ HeardKeep /\ JobKeep
    /\ UNCHANGED <<sent, timerArmed, pool>>
    /\ CallKeep /\ SessionKeep

\* A loop that gives up after two attempts.
speechmaticsDelayMaxAttempts ==
    /\ entry = "fetchSTT" /\ pc = "sm_sleep"
    /\ Len(polls) < 2
    /\ pc' = "sm_poll" /\ Issue("poll", "none")
    /\ UNCHANGED <<result, polls, failures, rejCause, timerArmed, pool>>
    /\ CallKeep /\ HeardKeep /\ JobKeep /\ SessionKeep

\* The 500 ms delay of the Speechmatics loop has passed: the next poll goes out.
speechmaticsDelay ==
    /\ entry = "fetchSTT" /\ pc = "sm_sleep"
    /\ Len(polls) < MaxPolls
    /\ pc' = "sm_poll" /\ Issue("poll", "none")
    /\ UNCHANGED <<result, polls, failures, rejCause, timerArmed, pool>>
    /\ CallKeep /\ HeardKeep /\ JobKeep /\ SessionKeep

\* handleAssemblyAI, step 1: the answer to the upload request; on success the
\* transcription job is submitted.
assemblyUpload ==
    /\ entry = "fetchSTT" /\ pc = "aai_upload"
    /\ \/ \E rej \in Rejections :
            /\ Finish(Ret("AssemblyAI upload error", ErrorMessage(rej)))
            /\ Rejected("upload") /\ rejCause' = rej.cause /\ UNCHANGED sent
            /\ JobKeep
       \/ \E ans \in ErrorAnswers :
            /\ Finish(RetHttp("AssemblyAI upload failed", ans))
            /\ Refused("upload", ans) /\ UNCHANGED <<sent, rejCause>> /\ JobKeep
       \/ /\ Finish(Ret("Failed to parse upload response", "parse error"))
          /\ UNCHANGED <<sent, failures, rejCause>> /\ JobKeep
       \/ /\ Finish(Ret("Upload URL not received from AssemblyAI", ""))
          /\ UNCHANGED <<sent, failures, rejCause>> /\ JobKeep
       \/ /\ pc' = "aai_submit" /\ Issue("submit", "json")
          /\ \E audioUrl \in UploadUrls :
                job' = [job EXCEPT
                           !.upload_url = audioUrl,
                           !.audio_url = TranscriptPayload(audioUrl).audio_url]
          /\ UNCHANGED <<result, failures, rejCause>>
    /\ UNCHANGED <<polls, timerArmed, pool>>
    /\ CallKeep /\ HeardKeep /\ SessionKeep

\* handleAssemblyAI, step 2: the answer to the job submission; on success the
\* poll loop is entered, which waits before its first request.
assemblySubmit ==
    /\ entry = "fetchSTT" /\ pc = "aai_submit"
    /\ \/ \E rej \in Rejections :
            /\ Finish(Ret("AssemblyAI transcript submission error", ErrorMessage(rej)))
            /\ Rejected("submit") /\ rejCause' = rej.cause /\ JobKeep
       \/ \E ans \in ErrorAnswers :
            /\ Finish(RetHttp("AssemblyAI transcript submission failed", ans))
            /\ Refused("submit", ans) /\ UNCHANGED rejCause /\ JobKeep
       \/ /\ Finish(Ret("Failed to parse transcript response", "parse error"))
          /\ UNCHANGED <<failures, rejCause>> /\ JobKeep
       \/ /\ Finish(Ret("Transcript ID not received from AssemblyAI", ""))
          /\ UNCHANGED <<failures, rejCause>> /\ JobKeep
       \/ /\ pc' = "aai_sleep"
          /\ \E transcriptId \in JobIds : job' = [job EXCEPT !.id = transcriptId]
          /\ UNCHANGED <<result, failures, rejCause>>
    /\ UNCHANGED <<sent, polls, timerArmed, pool>>
    /\ CallKeep /\ HeardKeep /\ SessionKeep

\* handleAssemblyAI, step 3: the 300 ms delay has passed, the status request
\* goes out.
assemblyDelay ==
    /\ entry = "fetchSTT" /\ pc = "aai_sleep"
    /\ Len(polls) < MaxPolls
    /\ pc' = "aai_poll" /\ Issue("poll", "none")
    /\ UNCHANGED <<result, polls, failures, rejCause, timerArmed, pool>>
    /\ job' = [job EXCEPT !.polled = job.id]
    /\ CallKeep /\ HeardKeep /\ SessionKeep

\* A failure text that drops what the vendor reported.
VendorReasonDropped(reason) == "Unknown error"

\* statusData.error || "Unknown error"
VendorReason(reason) == IF reason = "" THEN "Unknown error" ELSE reason

\* A loop that does not stop on the vendor's error status.
AssemblyClassNoError(status) ==
    IF status = "completed" THEN "success" ELSE "continue"

\* How the AssemblyAI loop reads statusData.status.
AssemblyClass(status) ==
    IF status = "completed" THEN "success"
    ELSE IF status = "error" THEN "failure"
    ELSE "continue"

\* handleAssemblyAI, step 3: the answer to the status request.
assemblyPoll ==
    /\ entry = "fetchSTT" /\ pc = "aai_poll"
    /\ \/ \E rej \in Rejections :
            /\ Finish(Ret("AssemblyAI polling error", ErrorMessage(rej)))
            /\ Rejected("poll") /\ rejCause' = rej.cause /\ Poll("network")
            /\ HeardKeep /\ JobKeep
       \/ \E ans \in ErrorAnswers :
            /\ Finish(RetHttp("AssemblyAI polling failed", ans))
            /\ Refused("poll", ans) /\ Poll("http") /\ UNCHANGED rejCause
            /\ HeardKeep /\ JobKeep
       \/ /\ Finish(Ret("Failed to parse status response", "parse error"))
          /\ Poll("unparsable") /\ UNCHANGED <<failures, rejCause>> /\ HeardKeep
          /\ JobKeep
       \/ \E status \in AssemblyStatuses, text \in Texts, reason \in {"", "bad audio"} :
            /\ Poll(status) /\ UNCHANGED <<failures, rejCause>>
            /\ CASE AssemblyClass(status) = "success" ->
                      /\ Finish(RetText(text))
                      /\ heard' = <<text>> /\ JobKeep
                 [] AssemblyClass(status) = "failure" ->
                      /\ Finish(Ret("AssemblyAI transcription error", VendorReason(reason)))
                      /\ HeardKeep /\ job' = [job EXCEPT !.reason = reason]
                 [] OTHER ->
                      /\ pc' = "aai_sleep" /\ UNCHANGED result /\ HeardKeep
                      /\ JobKeep
    /\ UNCHANGED <<sent, timerArmed, pool>>
    /\ CallKeep /\ SessionKeep

\* ultraFastSTT up to its request, which goes through ultraFastFetch: the pool
\* entry of the origin is created or touched and the 2 s timer is armed.  The
\* body is always a multipart form.
ultraFastSTT ==
    /\ entry = "ultraFastSTT" /\ pc = "start"
    /\ IF provider = NoProvider
       THEN /\ Finish(Throw("TypeError", 0, ""))
            /\ UNCHANGED <<sent, timerArmed, pool>>
       ELSE /\ pc' = "uf_fetch" /\ Issue("main", "formdata")
            /\ timerArmed' = TRUE /\ pool' = pool \cup {Origin(provider)}
            /\ UNCHANGED result
    /\ UNCHANGED <<polls, failures, rejCause>>
    /\ CallKeep /\ HeardKeep /\ JobKeep /\ SessionKeep

\* ultraFastFetch hands the response back and clears the timer; ultraFastSTT
\* (ultraFastGroq for groq-whisper) reads it.
ultraFastSTT_response ==
    /\ entry = "ultraFastSTT" /\ pc = "uf_fetch" /\ timerArmed
    /\ timerArmed' = FALSE
    /\ \/ \E ans \in ErrorAnswers :
            /\ Finish(Throw(IF provider.id = "groq-whisper"
                            THEN "Groq STT error" ELSE "STT API error",
                            ans.status, ""))
            /\ Refused("main", ans)
       \/ /\ Finish(Throw("body", 0, "read error"))
          /\ UNCHANGED failures
       \/ \E text \in Texts :
            /\ Finish(RetText(text))
            /\ UNCHANGED failures
    /\ UNCHANGED <<sent, polls, rejCause, pool>>
    /\ CallKeep /\ HeardKeep /\ JobKeep /\ SessionKeep

\* fetch rejects: ultraFastFetch clears the timer and rethrows, ultraFastSTT
\* logs and rethrows.
ultraFastFetch_reject ==
    /\ entry = "ultraFastSTT" /\ pc = "uf_fetch" /\ timerArmed
    /\ timerArmed' = FALSE
    /\ \E rej \in Rejections :
            /\ Finish(Throw(IF rej.isError THEN "Error" ELSE "value", 0, rej.cause))
            /\ Rejected("main") /\ rejCause' = rej.cause
    /\ UNCHANGED <<sent, polls, pool>>
    /\ CallKeep /\ HeardKeep /\ JobKeep /\ SessionKeep

\* The 2 s timer fires: controller.abort() makes the pending fetch reject, and
\* the rejection is rethrown like any other.
ultraFastFetch_timeout ==
    /\ entry = "ultraFastSTT" /\ pc = "uf_fetch" /\ timerArmed
    /\ timerArmed' = FALSE
    /\ Finish(Throw("Error", 0, "aborted"))
    /\ Rejected("main") /\ rejCause' = "timeout"
    /\ UNCHANGED <<sent, polls, pool>>
    /\ CallKeep /\ HeardKeep /\ JobKeep /\ SessionKeep

\* ------------------------------------------------------ the completion hook
Configs == {"ok", "nokey", "unknown", "nomodel"}

SessionIdle ==
    /\ abortControllerRef = 0 /\ abortedCtl = {}
    /\ calls = <<>> /\ nCalls = 0 /\ response = <<>> /\ isLoading = FALSE
    /\ error = "" /\ conversationHistory = <<>> /\ cancelledAt = "none"

SttKeep == UNCHANGED <<sttVars, otherVars>>

Call(via, state, snap) == [via |-> via, state |-> state, chunks |-> 0, snap |-> snap]

InFlight(c) == calls[c].state \in {"transcribing", "streaming"}

\* The error the guards of submit and handleScreenshotSubmit set.
ConfigError ==
    CASE config = "nokey" -> "Please configure your AI provider and API key in settings"
      [] config = "unknown" -> "Invalid provider selected"
      [] config = "nomodel" -> "Please select a model in settings"
      [] OTHER -> ""

\* abortControllerRef.current.abort() when there is a current controller.
AbortCurrent ==
    abortedCtl' = IF abortControllerRef # 0
                  THEN abortedCtl \cup {abortControllerRef} ELSE abortedCtl

\* The part submit and handleScreenshotSubmit share once their guards passed:
\* abort the current controller, make a new one for call c, show the loading
\* state with an empty response, and start iterating fetchAIResponse, which is
\* given no signal.
StartStream(c) ==
    /\ AbortCurrent
    /\ abortControllerRef' = c
    /\ isLoading' = TRUE /\ error' = "" /\ response' = <<>>
    /\ cancelledAt' = "none"

\* A submit without guards: whatever the settings and the input, the current
\* call is aborted and a new one started.
submitUnguarded(blank) ==
    /\ nCalls < MaxCalls
    /\ StartStream(nCalls + 1)
    /\ nCalls' = nCalls + 1
    /\ calls' = Append(calls, Call("submit", "streaming", conversationHistory))
    /\ UNCHANGED <<config, conversationHistory>>
    /\ SttKeep

\* submit() with an input that is blank or not.
submitInput(blank) ==
    /\ nCalls < MaxCalls
    /\ IF config # "ok"
       THEN /\ error' = ConfigError
            /\ UNCHANGED <<abortControllerRef, abortedCtl, calls, nCalls,
                           response, isLoading, cancelledAt>>
       ELSE IF blank
       THEN UNCHANGED <<abortControllerRef, abortedCtl, calls, nCalls,
                        response, isLoading, error, cancelledAt>>
       ELSE /\ StartStream(nCalls + 1)
            /\ nCalls' = nCalls + 1
            /\ calls' = Append(calls, Call("submit", "streaming", conversationHistory))
    /\ UNCHANGED <<config, conversationHistory>>
    /\ SttKeep

\* submit() from the input box.
submit == \E blank \in BOOLEAN : submitInput(blank)

\* The user changes the AI provider settings while the hook is mounted: the
\* next submit sees another selection.
settingsChanged ==
    /\ \E c \in Configs \ {config} : config' = c
    /\ UNCHANGED <<abortControllerRef, abortedCtl, calls, nCalls, response,
                   isLoading, error, conversationHistory, cancelledAt>>
    /\ SttKeep

\* handleScreenshotSubmit(base64, prompt) in auto mode.
handleScreenshotSubmit ==
    /\ nCalls < MaxCalls
    /\ IF config # "ok"
       THEN /\ error' = ConfigError
            /\ UNCHANGED <<abortControllerRef, abortedCtl, calls, nCalls,
                           response, isLoading, cancelledAt>>
       ELSE /\ StartStream(nCalls + 1)
            /\ nCalls' = nCalls + 1
            /\ calls' = Append(calls, Call("screenshot", "streaming", conversationHistory))
    /\ UNCHANGED <<config, conversationHistory>>
    /\ SttKeep

\* One pass of the for-await loop of call c: the chunk is appended to the
\* response.
chunk(c) ==
    /\ calls[c].state = "streaming" /\ calls[c].chunks < MaxChunks
    /\ response' = Append(response, c)
    /\ calls' = [calls EXCEPT ![c].chunks = @ + 1]
    /\ UNCHANGED <<config, abortControllerRef, abortedCtl, nCalls, isLoading,
                   error, conversationHistory, cancelledAt>>
    /\ SttKeep

\* The stream of call c ends: loading is switched off and a non-empty answer
\* is saved to the conversation the call started from.
streamEnd(c) ==
    /\ calls[c].state = "streaming"
    /\ calls' = [calls EXCEPT ![c].state = "done"]
    /\ isLoading' = FALSE
    /\ conversationHistory' =
          IF calls[c].chunks > 0 THEN Append(calls[c].snap, c)
          ELSE conversationHistory
    /\ UNCHANGED <<config, abortControllerRef, abortedCtl, nCalls, response,
                   error, cancelledAt>>
    /\ SttKeep

\* fetchAIResponse throws in call c: the catch block shows the error.
streamError(c) ==
    /\ calls[c].state = "streaming"
    /\ calls' = [calls EXCEPT ![c].state = "failed"]
    /\ isLoading' = FALSE /\ error' = "An error occurred"
    /\ UNCHANGED <<config, abortControllerRef, abortedCtl, nCalls, response,
                   conversationHistory, cancelledAt>>
    /\ SttKeep

\* cancel(): abort the current controller, forget it, switch loading off.
cancel ==
    /\ AbortCurrent
    /\ abortControllerRef' = 0
    /\ isLoading' = FALSE
    /\ cancelledAt' = pc
    /\ UNCHANGED <<config, calls, nCalls, response, error, conversationHistory>>
    /\ SttKeep

\* reset(): cancel(), then clear input, response, error and files.
reset ==
    /\ AbortCurrent
    /\ abortControllerRef' = 0
    /\ isLoading' = FALSE
    /\ cancelledAt' = pc
    /\ response' = <<>> /\ error' = ""
    /\ UNCHANGED <<config, calls, nCalls, conversationHistory>>
    /\ SttKeep

\* A handler that transcribes whether the voice input is paused or not.
onSpeechEndIgnoringPause ==
    /\ nCalls < MaxCalls
    /\ nCalls' = nCalls + 1
    /\ calls' = Append(calls, Call("speech", "transcribing", <<>>))
    /\ UNCHANGED <<config, abortControllerRef, abortedCtl, response, isLoading,
                   error, conversationHistory, cancelledAt>>
    /\ SttKeep

\* onSpeechEnd with a configured provider: nothing while paused, else fetchSTT
\* is awaited.
onSpeechEnd ==
    /\ nCalls < MaxCalls
    /\ IF isPaused
       THEN UNCHANGED <<calls, nCalls>>
       ELSE /\ nCalls' = nCalls + 1
            /\ calls' = Append(calls, Call("speech", "transcribing", <<>>))
    /\ UNCHANGED <<config, abortControllerRef, abortedCtl, response, isLoading,
                   error, conversationHistory, cancelledAt>>
    /\ SttKeep

\* togglePause(): setIsPaused(!isPaused).
togglePause ==
    /\ isPaused' = ~isPaused
    /\ resumed' = (resumed \/ isPaused)
    /\ UNCHANGED <<sttVars, sessionVars, cancelledAt, reqVars, poolVars,
                   setVars, storeVars, decVars, filesVars>>

\* fetchSTT of call c returned: a non-empty string goes to submit(text).
transcribed(c) ==
    /\ calls[c].state = "transcribing"
    /\ \E text \in Texts :
        IF text = <<>>
        THEN /\ calls' = [calls EXCEPT ![c].state = "dropped"]
             /\ UNCHANGED <<abortControllerRef, abortedCtl, response,
                            isLoading, error, cancelledAt>>
        ELSE IF config # "ok"
        THEN /\ calls' = [calls EXCEPT ![c].state = "dropped"]
             /\ error' = ConfigError
             /\ UNCHANGED <<abortControllerRef, abortedCtl, response,
                            isLoading, cancelledAt>>
        ELSE IF trim(text) = <<>>
        THEN /\ calls' = [calls EXCEPT ![c].state = "dropped"]
             /\ UNCHANGED <<abortControllerRef, abortedCtl, response,
                            isLoading, error, cancelledAt>>
        ELSE /\ StartStream(c)
             /\ calls' = [calls EXCEPT ![c].state = "streaming",
                                       ![c].snap = conversationHistory]
    /\ UNCHANGED <<config, nCalls, conversationHistory>>
    /\ SttKeep

\* The call returned a failure text.
FailedTranscription(r) == r.how = "return" /\ r.tag # ""

\* onSpeechEnd once the fetchSTT it awaited has returned: a non-empty string
\* goes to submit(transcription), an exception to the error state.
onSpeechEnd_returned ==
    /\ entry = "fetchSTT" /\ pc = "done" /\ nCalls = 0 /\ error = ""
    /\ IF result.how = "throw"
       THEN /\ error' = result.tag
            /\ UNCHANGED <<abortControllerRef, abortedCtl, calls, nCalls,
                           response, isLoading, cancelledAt>>
       ELSE IF result.tag = "" /\ trim(result.text) = <<>>
       THEN UNCHANGED <<abortControllerRef, abortedCtl, calls, nCalls,
                        response, isLoading, error, cancelledAt>>
       ELSE /\ StartStream(1)
            /\ nCalls' = 1
            /\ calls' = <<Call("speech", "streaming", conversationHistory)>>
    /\ UNCHANGED <<config, conversationHistory>>
    /\ SttKeep

\* ------------------------------------------------------------ field paths
\* A JSON structure is the set of its leaves, each a path of keys and a value;
\* an array index is the key of its position.  A value is a sequence of
\* numbers (character codes, or base64 digits).
PathKeys == {"a", "b", "0", "model"}
PathTexts ==
    {<<"a">>, <<"b">>, <<"a", ".", "b">>, <<"a", "[", "0", "]">>,
     <<"b", "[", "0", "]", ".", "a">>}

Leaf(p, v) == [path |-> p, val |-> v]
Absent == <<-1>>
Nested == <<-2>>

IsPathKey(t) == t \in PathKeys

\* "a.b[0]" is the path a, b, 0.
ParsePath(text) == SelectSeq(text, IsPathKey)

IsPrefix(p, q) == Len(p) <= Len(q) /\ SubSeq(q, 1, Len(p)) = p

\* The path is empty or runs through a scalar of the structure.
Blocked(obj, p) == p = <<>> \/ \E l \in obj : l.path # p /\ IsPrefix(l.path, p)

\* get(obj, path): the value at the path, Nested for an object or array there,
\* Absent when a segment is missing.
getByPath(obj, text) ==
    LET p == ParsePath(text) IN
    IF \E l \in obj : l.path = p THEN (CHOOSE l \in obj : l.path = p).val
    ELSE IF \E l \in obj : IsPrefix(p, l.path) THEN Nested
    ELSE Absent

\* A set that writes only below containers that exist already.
setByPathExisting(obj, text, v) ==
    LET p == ParsePath(text) IN
    IF Blocked(obj, p) THEN obj
    ELSE IF Len(p) > 1 /\ ~\E l \in obj : IsPrefix(SubSeq(p, 1, Len(p) - 1), l.path)
    THEN obj
    ELSE {l \in obj : ~IsPrefix(p, l.path)} \cup {Leaf(p, v)}

\* set(obj, path, value): the value is written at the path, the intermediate
\* objects and arrays that are missing are created, whatever was at the path
\* is replaced.  A scalar on the way is not descended into.
setByPath(obj, text, v) ==
    LET p == ParsePath(text) IN
    IF Blocked(obj, p) THEN obj
    ELSE {l \in obj : ~IsPrefix(p, l.path)} \cup {Leaf(p, v)}

\* blobToBase64: three bytes make four digits, 64 is the padding digit.
RECURSIVE Base64(_)
Base64(bytes) ==
    IF bytes = <<>> THEN <<>>
    ELSE IF Len(bytes) = 1
    THEN <<bytes[1] \div 4, (bytes[1] % 4) * 16, 64, 64>>
    ELSE IF Len(bytes) = 2
    THEN <<bytes[1] \div 4, (bytes[1] % 4) * 16 + bytes[2] \div 16,
           (bytes[2] % 16) * 4, 64>>
    ELSE <<bytes[1] \div 4, (bytes[1] % 4) * 16 + bytes[2] \div 16,
           (bytes[2] % 16) * 4 + bytes[3] \div 64, bytes[3] % 64>>
         \o Base64(SubSeq(bytes, 4, Len(bytes)))

\* --------------------------------------------------------- request builder
Objects ==
    {{}, {Leaf(<<"a">>, <<1>>)}, {Leaf(<<"a", "b">>, <<1>>), Leaf(<<"b">>, <<2>>)},
     {Leaf(<<"a", "0">>, <<1>>), Leaf(<<"a", "b">>, <<2>>)},
     {Leaf(<<"b", "0", "a">>, <<1>>), Leaf(<<"b", "0", "b">>, <<2>>)}}
Values == {<<1>>, <<3>>}
Audios == {<<255>>, <<77, 97>>, <<77, 97, 110, 0>>}

\* The static fields a descriptor declares.
StaticFields ==
    {{}, {Leaf(<<"model">>, <<2>>), Leaf(<<"b">>, <<1>>)},
     {Leaf(<<"a", "b">>, <<2>>), Leaf(<<"a", "0">>, <<1>>)}}

\* The model ultraFastSTT forces.
Whisper1 == <<9>>

AuthTypes == {"bearer", "custom-header", "query"}
AudioKeys == {<<>>, <<"a">>, <<"a", ".", "b">>, <<"b", "[", "0", "]", ".", "a">>}
Descriptors ==
    [id : SttIds, authType : AuthTypes, authParam : {"", "key"},
     bodyType : BodyTypes \cup {"xml"}, audioKey : AudioKeys,
     fields : StaticFields]
NoDescriptor ==
    [id |-> "", authType |-> "", authParam |-> "", bodyType |-> "",
     audioKey |-> <<>>, fields |-> {}]

\* getAuthHeaders(provider, apiKey): the headers that carry the key.
getAuthHeaders(d) ==
    CASE d.authType = "bearer" -> {"Authorization"}
      [] d.authType = "custom-header" -> {"x-api-key"}
      [] OTHER -> {}

Body(kind, json, field, audio) ==
    [kind |-> kind, json |-> json, field |-> field, audio |-> audio]
NoBody == Body("none", {}, <<>>, <<>>)

Built(via, d, audio, refused, keyInQuery, keyHeaders, body) ==
    [via |-> via, desc |-> d, audio |-> audio, refused |-> refused,
     keyInQuery |-> keyInQuery, keyHeaders |-> keyHeaders, body |-> body]
NoRequest == Built("none", NoDescriptor, <<>>, FALSE, FALSE, {}, NoBody)

ReqIdle == request = NoRequest /\ accessed = <<>>

\* if (provider.authParam) queryParams.append(provider.authParam, apiKey)
KeyInQuery(d) == d.authParam # ""

\* The body fetchSTT builds for the descriptor's body type.
SttBody(d, audio) ==
    CASE d.bodyType = "formdata" ->
            Body("formdata", d.fields, d.audioKey,
                 IF d.audioKey # <<>> THEN audio ELSE <<>>)
      [] d.bodyType = "json" ->
            Body("json",
                 IF d.audioKey # <<>>
                 THEN setByPath(d.fields, d.audioKey, Base64(audio))
                 ELSE d.fields,
                 <<>>, <<>>)
      [] d.bodyType = "raw" -> Body("raw", {}, <<>>, audio)
      [] OTHER -> NoBody

\* fetchSTT from the provider check to the request it hands to fetch.
BuildFetchSTT(d, audio) ==
    IF d.id = "assemblyai-stt"
    THEN Built("handleAssemblyAI", d, audio, FALSE, FALSE, {"authorization"},
               Body("raw", {}, <<>>, audio))
    ELSE IF d.bodyType \notin BodyTypes
    THEN Built("fetchSTT", d, audio, TRUE, FALSE, {}, NoBody)
    ELSE Built("fetchSTT", d, audio, FALSE, KeyInQuery(d), getAuthHeaders(d),
               SttBody(d, audio))

\* The fields ultraFastSTT appends: the model is forced.
FastFields(fields) ==
    {IF l.path = <<"model">> THEN Leaf(l.path, Whisper1) ELSE l : l \in fields}

\* ultraFastSTT (ultraFastGroq for groq-whisper) up to the request it hands
\* to ultraFastFetch.
BuildUltraFastSTT(d, audio) ==
    IF d.id = "groq-whisper"
    THEN Built("ultraFastGroq", d, audio, FALSE, FALSE, {"Authorization"},
               Body("formdata", {Leaf(<<"model">>, <<8>>)}, <<"file">>, audio))
    ELSE Built("ultraFastSTT", d, audio, FALSE, KeyInQuery(d), getAuthHeaders(d),
               Body("formdata", FastFields(d.fields), d.audioKey,
                    IF d.audioKey # <<>> THEN audio ELSE <<>>))

ReqKeep == UNCHANGED <<sttVars, sessionVars, cancelledAt, poolVars, setVars,
                       storeVars, decVars, uiVars>>

\* The request fetchSTT builds for one call.
fetchSTT_build ==
    /\ request = NoRequest
    /\ \E d \in Descriptors, audio \in Audios :
          request' = BuildFetchSTT(d, audio)
    /\ UNCHANGED accessed /\ ReqKeep

\* The request ultraFastSTT builds for one call.
ultraFastSTT_build ==
    /\ request = NoRequest
    /\ \E d \in Descriptors, audio \in Audios :
          request' = BuildUltraFastSTT(d, audio)
    /\ UNCHANGED accessed /\ ReqKeep

\* setByPath(obj, path, v) followed by getByPath(obj, path).
accessField ==
    /\ accessed = <<>>
    /\ \E obj \in Objects, text \in PathTexts, v \in Values :
          accessed' = <<[obj |-> obj, path |-> text, val |-> v,
                         after |-> setByPath(obj, text, v),
                         got |-> getByPath(setByPath(obj, text, v), text)]>>
    /\ UNCHANGED request /\ ReqKeep

\* ------------------------------------------------ pool and response cache
IdleTimeout == 30000
CleanupInterval == 30000
FetchTimeout == 2000
DefaultTtl == 300000
CacheLimit == 100

Origins == {"https://api.openai.com"}

\* How far the clock moves in one step.
TimeSteps == {FetchTimeout, CleanupInterval}

Entry(controller, lastUsed, warmupPromise) ==
    [present |-> TRUE, controller |-> controller, lastUsed |-> lastUsed,
     warmupPromise |-> warmupPromise]
NoEntry ==
    [present |-> FALSE, controller |-> 0, lastUsed |-> 0, warmupPromise |-> FALSE]

\* What the pool holds for an origin.
PoolState(o) ==
    IF ~CONNECTION_POOL[o].present THEN "none"
    ELSE IF CONNECTION_POOL[o].warmupPromise THEN "warmed"
    ELSE "unwarmed"

Req(kind, origin, controller, state, entryAt, deadline, answer, outcome) ==
    [kind |-> kind, origin |-> origin, controller |-> controller,
     state |-> state, entryAt |-> entryAt, deadline |-> deadline,
     answer |-> answer, outcome |-> outcome]

Pending(r) == r.state \in {"inflight", "fallback"}

\* A fetch that fails whenever the pool had no entry for the origin.
FetchOutcomeNeedsEntry(answer, entryAt) ==
    IF entryAt = "none" THEN "throw rejection"
    ELSE CASE answer = "response" -> "return response"
           [] answer = "reject" -> "throw rejection"
           [] answer = "timeout" -> "throw abort"
           [] OTHER -> "throw TypeError"

\* What ultraFastFetch hands to its caller, given what happened to the request
\* and what the pool held for the origin when it was called.
FetchOutcome(answer, entryAt) ==
    CASE answer = "response" -> "return response"
      [] answer = "reject" -> "throw rejection"
      [] answer = "timeout" -> "throw abort"
      [] OTHER -> "throw TypeError"

\* hashString: hash = ((hash << 5) - hash) + char, kept to 32 bits.  The
\* 32-bit value is held as two 16-bit halves.
HashStep(h, c) ==
    LET lo == 31 * h.lo + c
    IN  [lo |-> lo % 65536, hi |-> (31 * h.hi + lo \div 65536) % 65536]

RECURSIVE HashFrom(_, _)
HashFrom(h, str) ==
    IF str = <<>> THEN h ELSE HashFrom(HashStep(h, Head(str)), Tail(str))

\* The signed 32-bit integer of the two halves.
ToInt32(h) ==
    IF h.hi >= 32768 THEN (h.hi - 65536) * 65536 + h.lo ELSE h.hi * 65536 + h.lo

\* Number.prototype.toString(36) of a non-negative integer: its digits.
RECURSIVE Digits36(_)
Digits36(n) ==
    IF n < 36 THEN <<n>> ELSE Append(Digits36(n \div 36), n % 36)

toString36(n) ==
    IF n < 0 THEN [minus |-> TRUE, digits |-> Digits36(-n)]
    ELSE [minus |-> FALSE, digits |-> Digits36(n)]

hashString(str) == toString36(ToInt32(HashFrom([lo |-> 0, hi |-> 0], str)))

\* A prompt is a sequence of character codes.
Prompts == {<<104, 105>>, <<104, 105, 33>>}
Asks == [provider : {"openai", "groq"}, model : {"m1", "m2"}, prompt : Prompts]
NoAsk == [provider |-> "", model |-> "", prompt |-> <<>>]
Ttls == {CleanupInterval, DefaultTtl}

\* The cache entry of a key, as a set of at most one entry.
Cached(key) == {e \in RESPONSE_CACHE : e.key = key}

\* The entry with the greatest timestamp.
Newest(entries) ==
    CHOOSE e \in entries : \A f \in entries : e.timestamp >= f.timestamp

\* The entry with the smallest timestamp.
Oldest(entries) ==
    CHOOSE e \in entries : \A f \in entries : e.timestamp <= f.timestamp

PoolIdle ==
    /\ now = 0 /\ nextCleanup = CleanupInterval /\ advances = 0
    /\ CONNECTION_POOL = [o \in Origins |-> NoEntry]
    /\ requests = <<>> /\ nextCtl = 1 /\ abortedControllers = {}
    /\ RESPONSE_CACHE = {} /\ stores = 0 /\ lookup = <<>>

PoolKeep == UNCHANGED <<sttVars, sessionVars, cancelledAt, reqVars, setVars,
                        storeVars, decVars, uiVars>>
CacheKeep == UNCHANGED <<RESPONSE_CACHE, stores, lookup>>
ClockKeep == UNCHANGED <<now, nextCleanup, advances>>

\* ultraFastFetch(url, options) up to its await: the pool entry of the origin
\* is touched or created, a controller of its own is made, the 2 s timer is
\* armed and the request goes out.
ultraFastFetch(o) ==
    /\ Len(requests) < MaxRequests
    /\ \E valid \in BOOLEAN :
        IF ~valid
        THEN /\ requests' = Append(requests,
                    Req("fetch", o, 0, "settled", PoolState(o), 0, "invalid",
                        FetchOutcome("invalid", PoolState(o))))
             /\ UNCHANGED <<CONNECTION_POOL, nextCtl>>
        ELSE LET conn == CONNECTION_POOL[o]
                 own == IF conn.present THEN nextCtl ELSE nextCtl + 1
             IN  /\ CONNECTION_POOL' =
                        [CONNECTION_POOL EXCEPT ![o] =
                            IF conn.present THEN [conn EXCEPT !.lastUsed = now]
                            ELSE Entry(nextCtl, now, FALSE)]
                 /\ nextCtl' = own + 1
                 /\ requests' = Append(requests,
                        Req("fetch", o, own, "inflight", PoolState(o),
                            now + FetchTimeout, "none", "none"))
    /\ UNCHANGED abortedControllers /\ ClockKeep /\ CacheKeep /\ PoolKeep

\* The request of an ultraFastFetch call is answered or rejected: the timer is
\* cleared, the response is returned or the rejection rethrown.
ultraFastFetch_settle(i) ==
    /\ requests[i].kind = "fetch" /\ requests[i].state = "inflight"
    /\ \E answer \in {"response", "reject"} :
          requests' = [requests EXCEPT
                          ![i].state = "settled", ![i].answer = answer,
                          ![i].outcome = FetchOutcome(answer, requests[i].entryAt)]
    /\ UNCHANGED <<CONNECTION_POOL, nextCtl, abortedControllers>>
    /\ ClockKeep /\ CacheKeep /\ PoolKeep

\* The 2 s timer of an ultraFastFetch call fires: its own controller is
\* aborted, the request is rejected and the rejection rethrown.
ultraFastFetch_timer(i) ==
    /\ requests[i].kind = "fetch" /\ requests[i].state = "inflight"
    /\ now >= requests[i].deadline
    /\ abortedControllers' = abortedControllers \cup {requests[i].controller}
    /\ requests' = [requests EXCEPT
                       ![i].state = "settled", ![i].answer = "timeout",
                       ![i].outcome = FetchOutcome("timeout", requests[i].entryAt)]
    /\ UNCHANGED <<CONNECTION_POOL, nextCtl>>
    /\ ClockKeep /\ CacheKeep /\ PoolKeep

\* ultraWarmConnection(baseUrl) up to its await, for an origin that has no
\* warm-up promise yet: the HEAD request goes out on a new controller, which
\* becomes the controller of the pool entry.
ultraWarmConnection(o) ==
    /\ Len(requests) < MaxRequests
    /\ ~CONNECTION_POOL[o].warmupPromise
    /\ requests' = Append(requests,
            Req("warm", o, nextCtl, "inflight", PoolState(o), 0, "none", "none"))
    /\ CONNECTION_POOL' = [CONNECTION_POOL EXCEPT ![o] = Entry(nextCtl, now, TRUE)]
    /\ nextCtl' = nextCtl + 1
    /\ UNCHANGED abortedControllers /\ ClockKeep /\ CacheKeep /\ PoolKeep

\* A warm-up request settles: a rejected HEAD is followed by an OPTIONS request
\* on the same signal, a rejected OPTIONS is logged; after an abort both reject.
ultraWarmConnection_settle(i) ==
    /\ requests[i].kind = "warm"
    /\ \/ /\ requests[i].state = "inflight"
          /\ \/ requests' = [requests EXCEPT ![i].state = "settled",
                                ![i].answer = "response", ![i].outcome = "warmed"]
             \/ requests' = [requests EXCEPT ![i].state = "fallback",
                                ![i].answer = "reject"]
       \/ /\ requests[i].state = "fallback"
          /\ \E answer \in {"response", "reject"} :
                requests' = [requests EXCEPT ![i].state = "settled",
                                ![i].answer = answer,
                                ![i].outcome = IF answer = "response" THEN "warmed"
                                               ELSE "warmup failed"]
       \/ /\ requests[i].state = "aborted"
          /\ requests' = [requests EXCEPT ![i].state = "settled",
                             ![i].answer = "abort", ![i].outcome = "warmup failed"]
    /\ UNCHANGED <<CONNECTION_POOL, nextCtl, abortedControllers>>
    /\ ClockKeep /\ CacheKeep /\ PoolKeep

\* The entries the cleanup evicts.
Idle == {o \in Origins : /\ CONNECTION_POOL[o].present
                         /\ now - CONNECTION_POOL[o].lastUsed > IdleTimeout}

\* The cleanup interval fires: the controller of every idle entry is aborted,
\* which cancels the requests running on its signal, and the entry is deleted.
cleanup ==
    /\ now >= nextCleanup
    /\ LET ctls == {CONNECTION_POOL[o].controller : o \in Idle}
       IN  /\ abortedControllers' = abortedControllers \cup ctls
           /\ requests' = [i \in 1..Len(requests) |->
                             IF Pending(requests[i]) /\ requests[i].controller \in ctls
                             THEN [requests[i] EXCEPT !.state = "aborted"]
                             ELSE requests[i]]
    /\ CONNECTION_POOL' = [o \in Origins |->
                             IF o \in Idle THEN NoEntry ELSE CONNECTION_POOL[o]]
    /\ nextCleanup' = nextCleanup + CleanupInterval
    /\ UNCHANGED <<now, advances, nextCtl>>
    /\ CacheKeep /\ PoolKeep

\* Time passes.
advance ==
    /\ advances < MaxAdvances
    /\ \E dt \in TimeSteps : now' = now + dt
    /\ advances' = advances + 1
    /\ UNCHANGED <<nextCleanup, CONNECTION_POOL, requests, nextCtl,
                   abortedControllers>>
    /\ CacheKeep /\ PoolKeep

\* cacheResponse(prompt, response, ttlMs) with the response that was produced
\* for the ask.
cacheResponse ==
    /\ stores < MaxStores
    /\ \E ask \in Asks, ttl \in Ttls :
        LET cacheKey == hashString(ask.prompt)
            set == (RESPONSE_CACHE \ Cached(cacheKey))
                   \cup {[key |-> cacheKey, response |-> ask,
                          timestamp |-> now, ttl |-> ttl]}
        IN  RESPONSE_CACHE' = IF Cardinality(set) > CacheLimit
                              THEN set \ {Oldest(set)} ELSE set
    /\ stores' = stores + 1
    /\ UNCHANGED <<lookup, CONNECTION_POOL, requests, nextCtl, abortedControllers>>
    /\ ClockKeep /\ PoolKeep

\* getCachedResponse(prompt) for an ask: the cached response, or null.
getCachedResponse ==
    /\ lookup = <<>>
    /\ \E ask \in Asks :
        LET cached == Cached(hashString(ask.prompt))
            hit == \E e \in cached : now - e.timestamp < e.ttl
        IN  lookup' = <<[ask |-> ask, hit |-> hit, how |-> "return",
                         response |-> IF hit
                                      THEN (CHOOSE e \in cached : TRUE).response
                                      ELSE NoAsk]>>
    /\ UNCHANGED <<RESPONSE_CACHE, stores, CONNECTION_POOL, requests, nextCtl,
                   abortedControllers>>
    /\ ClockKeep /\ PoolKeep

\* ------------------------------------------------------- provider settings
\* The built-in descriptors, as far as the settings code reads them.
AiProvider(id, defaultModel, isCustom) ==
    [id |-> id, defaultModel |-> defaultModel, isCustom |-> isCustom]
NoAiProvider == AiProvider("", "", FALSE)

AI_PROVIDERS ==
    <<AiProvider("gemini", "gemini-1.5-flash", FALSE),
      AiProvider("openai", "gpt-5", FALSE)>>
SPEECH_TO_TEXT_PROVIDERS == <<"openai-whisper", "groq-whisper">>

Sel(p, k, m) == [provider |-> p, apiKey |-> k, model |-> m]
NoSel == Sel("", "", "")
Gemini == Sel("gemini", "", "gemini-1.5-flash")

\* An item of the local storage: absent, the object JSON.parse gives, or text
\* JSON.parse throws on.
NoItem == [kind |-> "absent", value |-> NoSel]
Stored(sel) == [kind |-> "object", value |-> sel]
Corrupt == [kind |-> "corrupt", value |-> NoSel]

\* The custom provider lists the storage may hold (user-edited JSON entries).
CustomLists ==
    {<<>>,
     <<AiProvider("custom-1", "", FALSE)>>,
     <<AiProvider("openai", "", FALSE)>>,
     <<AiProvider("custom-1", "", FALSE), AiProvider("custom-1", "", FALSE)>>}

AiKeys == {"sk-ai"}
SttKeys == {"sk-stt"}
Models == {"", "m1"}

StoredAi ==
    {NoItem, Corrupt, Stored(Gemini), Stored(Sel("openai", "sk-ai", "gpt-5")),
     Stored(Sel("custom-1", "sk-ai", "")), Stored(Sel("ghost", "sk-ai", "m1")),
     Stored(Sel("", "sk-ai", "m1"))}
StoredStt ==
    {NoItem, Stored(Sel("openai-whisper", "sk-stt", "whisper-1")),
     Stored(Sel("groq-whisper", "", ""))}

Storage(ai, custom, stt) == [ai |-> ai, custom |-> custom, stt |-> stt]

Ids(list) == {list[i].id : i \in 1..Len(list)}

\* Array.prototype.find on p.id: the first descriptor with the id.
Find(list, id) ==
    IF id \in Ids(list)
    THEN list[CHOOSE i \in 1..Len(list) :
                 /\ list[i].id = id
                 /\ \A j \in 1..(i - 1) : list[j].id # id]
    ELSE NoAiProvider

\* a || b on strings.
Or(a, b) == IF a # "" THEN a ELSE b

\* A reset that leaves the custom AI providers in the storage.
ResetKeepsCustom(st) == [st EXCEPT !.ai = Stored(Gemini)]

\* resetToGeminiProvider: the selected AI provider and the custom AI providers
\* are removed, the Gemini default is written.
ResetToGemini(st) == [st EXCEPT !.ai = Stored(Gemini), !.custom = <<>>]

\* The model validateAndFixProviderSettings adds to a selection without one.
FixedModel(p) ==
    CASE p = "grok" -> "grok-4"
      [] p = "gemini" -> "gemini-1.5-flash"
      [] p = "openai" -> "gpt-5"
      [] p = "claude" -> "claude-sonnet-4-20250514"
      [] OTHER -> "gemini-1.5-flash"

validateAndFixProviderSettings(st) ==
    CASE st.ai.kind = "absent" -> st
      [] st.ai.kind = "corrupt" -> ResetToGemini(st)
      [] st.ai.value.provider = "" -> ResetToGemini(st)
      [] st.ai.value.model = "" ->
            [st EXCEPT !.ai.value.model = FixedModel(st.ai.value.provider)]
      [] OTHER -> st

\* The custom AI providers loadData takes from the storage.
LoadCustom(st) ==
    [i \in 1..Len(st.custom) |-> [st.custom[i] EXCEPT !.isCustom = TRUE]]

\* A loader that takes the stored selection without looking it up.
LoadSelectedAiUnchecked(st, aiList) ==
    IF st.ai.kind = "object"
    THEN Sel(st.ai.value.provider, st.ai.value.apiKey,
             Or(st.ai.value.model, "gemini-1.5-flash"))
    ELSE Gemini

\* The selected AI provider loadData takes from the storage.
LoadSelectedAi(st, aiList) ==
    LET allProviders == AI_PROVIDERS \o aiList
        parsed == st.ai.value
    IN  IF st.ai.kind = "object" /\ parsed.provider \in Ids(allProviders)
        THEN Sel(parsed.provider, parsed.apiKey,
                 Or(parsed.model,
                    Or(Find(allProviders, parsed.provider).defaultModel,
                       "gemini-1.5-flash")))
        ELSE Gemini

\* The selected STT provider loadData takes from the storage.
LoadSelectedStt(st) ==
    IF st.stt.kind = "object" THEN st.stt.value
    ELSE Sel(SPEECH_TO_TEXT_PROVIDERS[1], "", "")

\* The two sync effects: a selection with a provider is written to the storage.
Synced(st, ai, stt) ==
    [st EXCEPT !.ai = IF ai.provider # "" THEN Stored(ai) ELSE @,
               !.stt = IF stt.provider # "" THEN Stored(stt) ELSE @]

\* The effect of useSettings on selectedAIProvider.apiKey,
\* selectedAIProvider.provider and selectedSttProvider.provider: the STT
\* selection it leaves, given the AI provider it saw last.
SwitchedStt(prev, ai, stt) ==
    IF prev = "openai" /\ ai.provider # "openai" /\ stt.provider = "openai-whisper"
    THEN NoSel
    ELSE IF ai.apiKey # "" /\ ai.provider = "openai"
            /\ stt.provider = "openai-whisper"
         THEN Sel(stt.provider, ai.apiKey, "whisper-1")
         ELSE stt

DepsChanged(ai0, stt0, ai, stt) ==
    \/ ai.apiKey # ai0.apiKey
    \/ ai.provider # ai0.provider
    \/ stt.provider # stt0.provider

\* The state after a render that commits the selections ai and stt, the
\* selections before being ai0 and stt0, the switching effect having seen
\* prev0 and the storage being st.  The switching effect runs if one of its
\* dependencies changed and writes the STT selection it sets; the two sync
\* effects of the provider run after it when loadData set the selections
\* (loaded), and the STT one again on the render the switching effect caused.
CommitFrom(ai0, stt0, prev0, st, ai, stt, isLoad) ==
    LET run == DepsChanged(ai0, stt0, ai, stt)
        stt2 == IF run THEN SwitchedStt(prev0, ai, stt) ELSE stt
        st1 == IF stt2 # stt THEN [st EXCEPT !.stt = Stored(stt2)] ELSE st
        st2 == IF isLoad THEN Synced(st1, ai, stt) ELSE st1
    IN  /\ selectedAIProvider' = ai
        /\ selectedSttProvider' = stt2
        /\ prevAIProviderRef' = IF run THEN ai.provider ELSE prev0
        /\ storage' = IF stt2 # stt /\ stt2.provider # ""
                      THEN [st2 EXCEPT !.stt = Stored(stt2)] ELSE st2

Commit(st, ai, stt) ==
    CommitFrom(selectedAIProvider, selectedSttProvider, prevAIProviderRef,
               st, ai, stt, FALSE)

allAiProviders == AI_PROVIDERS \o customAiProviders

\* The model submit sends for the selected AI provider, "" when it refuses
\* the call for want of one.
ResolvedModel ==
    Or(selectedAIProvider.model,
       Find(allAiProviders, selectedAIProvider.provider).defaultModel)

\* fetchModels({provider, apiKey}): the model ids of a 200 response, an error
\* text for any other.
fetchModels(status, models) ==
    IF status = 200 THEN [kind |-> "list", models |-> models]
    ELSE [kind |-> "error", models |-> <<>>]

\* What fetchModelsForProvider stores under the provider's id.
Listed(models) ==
    IF models.kind = "list" THEN models ELSE [kind |-> "list", models |-> <<>>]

SetIdle ==
    /\ mounted = FALSE /\ storage = Storage(NoItem, <<>>, NoItem)
    /\ customAiProviders = <<>>
    /\ selectedAIProvider = NoSel /\ selectedSttProvider = NoSel
    /\ prevAIProviderRef = "" /\ listing = <<>> /\ lastStep = "none"
    /\ loaded = "none" /\ lastArg = <<>> /\ boundaryItem = NoItem

SetKeep == UNCHANGED <<sttVars, sessionVars, cancelledAt, reqVars, poolVars,
                       storeVars, decVars, uiVars>>

\* What the stored AI selection of the storage st is to loadData(): absent,
\* unparsable, without a provider, naming a provider that is neither built in
\* nor a stored custom provider, or naming a known one.
SelectionClass(st) ==
    CASE st.ai.kind = "absent" -> "absent"
      [] st.ai.kind = "corrupt" -> "corrupt"
      [] st.ai.value.provider = "" -> "malformed"
      [] st.ai.value.provider \notin Ids(AI_PROVIDERS) \cup Ids(st.custom)
            -> "unknown"
      [] OTHER -> "known"

\* loadData() with the storage st, and the render that follows; ai0, stt0
\* and prev0 are the selections and the reference before.
loadData(st, ai0, stt0, prev0) ==
    LET fixed == validateAndFixProviderSettings(st)
        aiList == LoadCustom(fixed)
    IN  /\ loaded' = SelectionClass(st)
        /\ customAiProviders' = aiList
        /\ CommitFrom(ai0, stt0, prev0, fixed, LoadSelectedAi(fixed, aiList),
                      LoadSelectedStt(fixed), TRUE)

\* The window is loaded, or reloaded after a reset as the troubleshooting
\* guide tells: the state is the initial one, the effects run on it, then
\* loadData() reads the storage.
mount ==
    /\ lastStep' = "mount"
    /\ ~mounted \/ lastStep \in {"resetToGeminiProvider", "componentDidCatch"}
    /\ mounted' = TRUE
    /\ loadData(storage, NoSel, NoSel, "")
    /\ listing' = <<>> /\ UNCHANGED <<lastArg, boundaryItem>> /\ SetKeep

\* handleStorageChange: another window has written one of the items.
handleStorageChange ==
    /\ lastStep' = "handleStorageChange"
    /\ mounted
    /\ \E st \in {[storage EXCEPT !.ai = v] : v \in StoredAi}
              \cup {[storage EXCEPT !.custom = v] : v \in CustomLists}
              \cup {[storage EXCEPT !.stt = v] : v \in StoredStt} :
          loadData(st, selectedAIProvider, selectedSttProvider,
                   prevAIProviderRef)
    /\ UNCHANGED <<mounted, listing, lastArg, boundaryItem>> /\ SetKeep

\* A setter that takes any provider id.
onSetSelectedAIProviderUnchecked(p) ==
    Commit([storage EXCEPT !.ai = Stored(p)], p, selectedSttProvider)

\* onSetSelectedAIProvider({provider, apiKey, model}) and the render that
\* follows.
onSetSelectedAIProvider(p) ==
    IF p.provider # "" /\ p.provider \notin Ids(allAiProviders)
    THEN UNCHANGED <<storage, selectedAIProvider, selectedSttProvider,
                     prevAIProviderRef>>
    ELSE LET finalModel ==
                 IF p.model = "" /\ p.provider # ""
                 THEN Find(allAiProviders, p.provider).defaultModel
                 ELSE p.model
             newProvider == Sel(p.provider, p.apiKey, finalModel)
         IN  Commit([storage EXCEPT !.ai = Stored(newProvider)], newProvider,
                    selectedSttProvider)

\* onSetSelectedSttProvider({provider, apiKey, model}) and the render that
\* follows.
onSetSelectedSttProvider(p) ==
    IF p.provider # ""
       /\ p.provider \notin {SPEECH_TO_TEXT_PROVIDERS[i] :
                                i \in 1..Len(SPEECH_TO_TEXT_PROVIDERS)}
    THEN UNCHANGED <<storage, selectedAIProvider, selectedSttProvider,
                     prevAIProviderRef>>
    ELSE Commit([storage EXCEPT !.stt = Stored(p)], selectedAIProvider, p)

\* The user picks a provider in the selection of the AI settings.
selectProvider ==
    /\ lastStep' = "selectProvider" /\ UNCHANGED <<loaded, lastArg, boundaryItem>>
    /\ mounted
    /\ \E value \in Ids(allAiProviders) :
          onSetSelectedAIProvider(
              Sel(value, "", Find(allAiProviders, value).defaultModel))
    /\ UNCHANGED <<mounted, customAiProviders, listing>> /\ SetKeep

\* submitApiKey() with a key typed into the field.
submitApiKey ==
    /\ lastStep' = "submitApiKey" /\ UNCHANGED <<loaded, lastArg, boundaryItem>>
    /\ mounted
    /\ \E localApiKey \in AiKeys :
          onSetSelectedAIProvider([selectedAIProvider EXCEPT !.apiKey = localApiKey])
    /\ UNCHANGED <<mounted, customAiProviders, listing>> /\ SetKeep

\* The user removes the API key.
removeApiKey ==
    /\ lastStep' = "removeApiKey" /\ UNCHANGED <<loaded, lastArg, boundaryItem>>
    /\ mounted /\ selectedAIProvider.apiKey # ""
    /\ onSetSelectedAIProvider(Sel(selectedAIProvider.provider, "", ""))
    /\ UNCHANGED <<mounted, customAiProviders, listing>> /\ SetKeep

\* The user picks or types a model.
changeModel ==
    /\ lastStep' = "changeModel" /\ UNCHANGED <<loaded, lastArg, boundaryItem>>
    /\ mounted
    /\ \E value \in Models :
          onSetSelectedAIProvider([selectedAIProvider EXCEPT !.model = value])
    /\ UNCHANGED <<mounted, customAiProviders, listing>> /\ SetKeep

\* submitSTTApiKey() with a key typed into the field.
submitSTTApiKey ==
    /\ lastStep' = "submitSTTApiKey" /\ UNCHANGED <<loaded, lastArg, boundaryItem>>
    /\ mounted
    /\ \E localSTTApiKey \in SttKeys :
          onSetSelectedSttProvider(
              [selectedSttProvider EXCEPT !.apiKey = localSTTApiKey])
    /\ UNCHANGED <<mounted, customAiProviders, listing>> /\ SetKeep

\* The selections a consumer of the context hands to the setters.
AiCalls == {Sel("ghost", "sk-ai", "m1"), Sel("openai", "sk-ai", "")}
SttCalls == {Sel("ghost", "sk-stt", "m1"), Sel("groq-whisper", "sk-stt", "")}

\* A consumer of the context calls onSetSelectedAIProvider.
useApp_onSetSelectedAIProvider ==
    /\ lastStep' = "onSetSelectedAIProvider"
    /\ mounted
    /\ \E p \in AiCalls :
          lastArg' = <<p.provider>> /\ onSetSelectedAIProvider(p)
    /\ UNCHANGED <<mounted, customAiProviders, listing, loaded, boundaryItem>>
    /\ SetKeep

\* A consumer of the context calls onSetSelectedSttProvider.
useApp_onSetSelectedSttProvider ==
    /\ lastStep' = "onSetSelectedSttProvider"
    /\ mounted
    /\ \E p \in SttCalls :
          lastArg' = <<p.provider>> /\ onSetSelectedSttProvider(p)
    /\ UNCHANGED <<mounted, customAiProviders, listing, loaded, boundaryItem>>
    /\ SetKeep

\* The messages of the errors a render may throw, as their words.
Messages ==
    {<<"Invalid", "provider">>, <<"No", "model", "selected">>,
     <<"Network", "error">>}

\* message.includes(word)
Includes(message, word) == \E i \in 1..Len(message) : message[i] = word

\* error.message.includes('provider') || error.message.includes('model')
ProviderRelated(message) ==
    Includes(message, "provider") \/ Includes(message, "model")

\* ErrorBoundary.componentDidCatch(error): for a provider-related error the
\* item 'selected-ai-provider' is removed and written with the Gemini default.
componentDidCatch ==
    /\ lastStep' = "componentDidCatch"
    /\ mounted
    /\ \E message \in Messages :
          /\ lastArg' = message
          /\ boundaryItem' = IF ProviderRelated(message) THEN Stored(Gemini)
                              ELSE boundaryItem
    /\ UNCHANGED <<mounted, storage, customAiProviders, selectedAIProvider,
                   selectedSttProvider, prevAIProviderRef, listing, loaded>>
    /\ SetKeep

\* resetToGemini() from the console: the storage is rewritten, the state of
\* the running window is not.
resetToGeminiProvider ==
    /\ lastStep' = "resetToGeminiProvider" /\ UNCHANGED <<loaded, lastArg, boundaryItem>>
    /\ mounted
    /\ storage' = ResetToGemini(storage)
    /\ UNCHANGED <<mounted, customAiProviders, selectedAIProvider,
                   selectedSttProvider, prevAIProviderRef, listing>>
    /\ SetKeep

\* fetchModelsForProvider(provider, apiKey) for the selected provider and its
\* key, with the answer of the vendor.
fetchModelsForProvider ==
    /\ lastStep' = "fetchModelsForProvider" /\ UNCHANGED <<loaded, lastArg, boundaryItem>>
    /\ mounted /\ listing = <<>>
    /\ selectedAIProvider.apiKey # ""
    /\ selectedAIProvider.provider \in Ids(allAiProviders)
    /\ \E status \in {200, 401}, models \in {<<>>, <<"m1">>} :
          /\ status = 401 => models = <<>>
          /\ listing' = <<[provider |-> selectedAIProvider.provider,
                           status |-> status, models |-> models,
                           availableModels |-> Listed(fetchModels(status, models))]>>
    /\ UNCHANGED <<mounted, storage, customAiProviders, selectedAIProvider,
                   selectedSttProvider, prevAIProviderRef>>
    /\ SetKeep

\* ------------------------------------------------------- the stored items
\* The members of STORAGE_KEYS the sources use.
STORAGE_KEYS ==
    {"CHAT_HISTORY", "CUSTOM_AI_PROVIDERS", "CUSTOM_SPEECH_PROVIDERS",
     "SCREENSHOT_CONFIG", "SELECTED_AI_PROVIDER", "SELECTED_STT_PROVIDER",
     "SYSTEM_PROMPT"}

\* Every key the application stores an item under.
AppKeys == STORAGE_KEYS \cup {"app_notes", "saved_pdfs"}

StoreIdle ==
    localStorage = {} /\ lastOp = "none" /\ notes = <<>> /\ clock = 0
NotesKeep == UNCHANGED <<notes, clock>>
StoreKeep == UNCHANGED <<sttVars, sessionVars, cancelledAt, reqVars, poolVars,
                         setVars, decVars, uiVars>>

\* safeLocalStorage.setItem(STORAGE_KEYS.X, ...) of the settings, the system
\* prompt and the chat history.
setItem(key) ==
    /\ key \notin localStorage
    /\ localStorage' = localStorage \cup {key}
    /\ lastOp' = "setItem" /\ NotesKeep /\ StoreKeep

\* What a note holds.
Contents == {"x", "y"}

\* saveNote(note): a note with the id Date.now().toString() is pushed and the
\* notes are written under 'app_notes'.
saveNote ==
    /\ Len(notes) < MaxNotes
    /\ \E content \in Contents :
          notes' = Append(notes, [id |-> clock, content |-> content])
    /\ localStorage' = localStorage \cup {"app_notes"}
    /\ lastOp' = "saveNote" /\ UNCHANGED clock /\ StoreKeep

\* savePDFToPersistentStorage(file): the PDFs are written under 'saved_pdfs'.
savePDFToPersistentStorage ==
    /\ "saved_pdfs" \notin localStorage
    /\ localStorage' = localStorage \cup {"saved_pdfs"}
    /\ lastOp' = "savePDFToPersistentStorage" /\ NotesKeep /\ StoreKeep

\* handleDeleteAllChatsConfirm(): the chat history item is removed.
handleDeleteAllChatsConfirm ==
    /\ "CHAT_HISTORY" \in localStorage
    /\ localStorage' = localStorage \ {"CHAT_HISTORY"}
    /\ lastOp' = "handleDeleteAllChatsConfirm" /\ NotesKeep /\ StoreKeep

\* clearAllAppData(): removeItem for every value of STORAGE_KEYS.
clearAllAppData ==
    /\ lastOp # "clearAllAppData"
    /\ localStorage' = localStorage \ STORAGE_KEYS
    /\ lastOp' = "clearAllAppData" /\ NotesKeep /\ StoreKeep

\* Date.now() moves on by a millisecond.
tick ==
    /\ clock < MaxClock
    /\ clock' = clock + 1
    /\ UNCHANGED <<localStorage, lastOp, notes>> /\ StoreKeep

\* findIndex(n => n.id === id), 0 for -1.
NoteIndex(id) ==
    IF \E i \in 1..Len(notes) : notes[i].id = id
    THEN CHOOSE i \in 1..Len(notes) :
             /\ notes[i].id = id
             /\ \A j \in 1..(i - 1) : notes[j].id # id
    ELSE 0

\* updateNote(id, {content}): the first note with the id is rewritten.
updateNote ==
    /\ \E id \in 0..MaxClock, content \in Contents :
          /\ NoteIndex(id) # 0
          /\ notes' = [notes EXCEPT ![NoteIndex(id)].content = content]
    /\ localStorage' = localStorage \cup {"app_notes"}
    /\ lastOp' = "updateNote" /\ UNCHANGED clock /\ StoreKeep

\* deleteNote(id): the notes with another id are written back.
deleteNote ==
    /\ \E id \in 0..MaxClock :
          /\ NoteIndex(id) # 0
          /\ notes' = SelectSeq(notes, LAMBDA n : n.id # id)
    /\ localStorage' = localStorage \cup {"app_notes"}
    /\ lastOp' = "deleteNote" /\ UNCHANGED clock /\ StoreKeep

\* ---------------------------------------------------- the streaming decoder
\* The decoder of fetchAIResponse for a line-delimited frame format: a frame
\* is the text up to a line feed, its payload parses unless it holds an "x",
\* and the delta of a frame that parses is its text.  The streams carry no
\* end-sentinel and are read to their close.
StreamChars == {"a", "b", "x", "\n"}

Boundaries(text) == {i \in 1..Len(text) : text[i] = "\n"}
Least(S) == CHOOSE i \in S : \A j \in S : i <= j
Greatest(S) == CHOOSE i \in S : \A j \in S : j <= i

\* The complete frames of a text, in order.
RECURSIVE Frames(_)
Frames(text) ==
    IF Boundaries(text) = {} THEN <<>>
    ELSE LET i == Least(Boundaries(text))
         IN  <<SubSeq(text, 1, i - 1)>> \o Frames(SubSeq(text, i + 1, Len(text)))

\* A decoder that forgets what follows the last boundary of a read.
RemainderDropped(text) == <<>>

\* What follows the last frame boundary of a text.
Remainder(text) ==
    IF Boundaries(text) = {} THEN text
    ELSE SubSeq(text, Greatest(Boundaries(text)) + 1, Len(text))

\* The frame parses.
Valid(frame) == frame # <<>> /\ \A i \in 1..Len(frame) : frame[i] # "x"

\* A decoder that ends the sequence at the first frame that does not parse.
RECURSIVE DeltasUntilMalformed(_)
DeltasUntilMalformed(frames) ==
    IF frames = <<>> \/ ~Valid(Head(frames)) THEN <<>>
    ELSE <<Head(frames)>> \o DeltasUntilMalformed(Tail(frames))

\* The deltas of a run of frames: a frame that does not parse is skipped.
DeltasOf(frames) == SelectSeq(frames, Valid)

\* One read of the decoder: the piece read is appended to the remainder kept, the
\* frames completed are decoded, what follows the last boundary is kept.
Decode(buf, piece) ==
    LET text == buf \o piece
    IN  [deltas |-> DeltasOf(Frames(text)), buffer |-> Remainder(text)]

\* fullResponse += chunk, for every delta of a run.
RECURSIVE Joined(_)
Joined(ds) == IF ds = <<>> THEN <<>> ELSE Head(ds) \o Joined(Tail(ds))

DecIdle ==
    /\ stream = <<>> /\ pos = 0 /\ buffer = <<>> /\ deltas = <<>>
    /\ fullResponse = <<>> /\ splitRead = FALSE /\ closed = FALSE
DecKeep == UNCHANGED <<sttVars, sessionVars, cancelledAt, reqVars, poolVars,
                       setVars, storeVars, uiVars>>

\* The reader delivers the next n characters; the consumer's loop body runs
\* for every delta yielded.
read(n) ==
    /\ ~closed /\ pos + n <= Len(stream)
    /\ LET d == Decode(buffer, SubSeq(stream, pos + 1, pos + n))
       IN  /\ buffer' = d.buffer
           /\ deltas' = deltas \o d.deltas
           /\ fullResponse' = fullResponse \o Joined(d.deltas)
           /\ splitRead' = (splitRead \/ d.buffer # <<>>)
    /\ pos' = pos + n
    /\ UNCHANGED <<stream, closed>> /\ DecKeep

\* The stream closes: the sequence ends, an incomplete remainder yields
\* nothing.
close ==
    /\ ~closed /\ pos = Len(stream)
    /\ closed' = TRUE
    /\ UNCHANGED <<stream, pos, buffer, deltas, fullResponse, splitRead>>
    /\ DecKeep

\* ------------------------------------------------------ the attached files
MAX_FILES == 6

VadIdle == isPaused = FALSE /\ resumed = FALSE
FilesIdle == attachedFiles = <<>> /\ pendingFiles = 0
UiIdle == VadIdle /\ FilesIdle

FilesKeep == UNCHANGED <<sttVars, sessionVars, cancelledAt, reqVars, poolVars,
                         setVars, storeVars, decVars, vadVars>>

Min(a, b) == IF a < b THEN a ELSE b

\* handleFileSelect with n images or PDFs: every file is tested against the
\* length the list had at the last render, and addFile is started for each
\* that passes.
handleFileSelect ==
    /\ \E n \in 1..MaxSelect :
          /\ Len(attachedFiles) + pendingFiles + n <= MaxAttached
          /\ pendingFiles' = IF Len(attachedFiles) < MAX_FILES
                              THEN pendingFiles + n ELSE pendingFiles
    /\ UNCHANGED attachedFiles /\ FilesKeep

\* handlePaste with n images: the files taken so far in this paste are
\* counted with the length the list had at the last render.
handlePaste ==
    /\ \E n \in 1..MaxSelect :
          LET room == IF Len(attachedFiles) < MAX_FILES
                      THEN MAX_FILES - Len(attachedFiles) ELSE 0
          IN  /\ Len(attachedFiles) + pendingFiles + Min(n, room) <= MaxAttached
              /\ pendingFiles' = pendingFiles + Min(n, room)
    /\ UNCHANGED attachedFiles /\ FilesKeep

\* addFile(file) after its awaits: the file is appended to the list.
addFile ==
    /\ pendingFiles > 0
    /\ pendingFiles' = pendingFiles - 1
    /\ attachedFiles' = Append(attachedFiles, "file")
    /\ FilesKeep

\* handleScreenshotSubmit(base64) without a prompt: the screenshot is
\* appended to the list.
handleScreenshotSubmit_manual ==
    /\ Len(attachedFiles) + pendingFiles < MaxAttached
    /\ attachedFiles' = Append(attachedFiles, "screenshot")
    /\ UNCHANGED pendingFiles /\ FilesKeep

\* removeFile(fileId)
removeFile ==
    /\ \E i \in 1..Len(attachedFiles) :
          attachedFiles' = SubSeq(attachedFiles, 1, i - 1)
                           \o SubSeq(attachedFiles, i + 1, Len(attachedFiles))
    /\ UNCHANGED pendingFiles /\ FilesKeep

\* clearFiles()
clearFiles ==
    /\ attachedFiles # <<>>
    /\ attachedFiles' = <<>>
    /\ UNCHANGED pendingFiles /\ FilesKeep

OtherIdle ==
    ReqIdle /\ PoolIdle /\ SetIdle /\ StoreIdle /\ DecIdle /\ UiIdle

\* ---------------------------------------------------------- specifications
SttInit ==
    /\ entry \in {"fetchSTT", "ultraFastSTT"}
    /\ provider \in Providers \cup {NoProvider}
    /\ pc = "start" /\ result = NoResult /\ sent = <<>> /\ polls = <<>>
    /\ failures = <<>> /\ rejCause = "none" /\ timerArmed = FALSE /\ pool = {}
    /\ heard = <<>> /\ job = NoJob
    /\ config = "ok" /\ SessionIdle /\ OtherIdle

SttNext ==
    \/ fetchSTT
    \/ fetchSTT_response
    \/ speechmaticsPoll
    \/ speechmaticsDelay
    \/ assemblyUpload
    \/ assemblySubmit
    \/ assemblyDelay
    \/ assemblyPoll
    \/ ultraFastSTT
    \/ ultraFastSTT_response
    \/ ultraFastFetch_reject
    \/ ultraFastFetch_timeout
    \/ cancel
    \/ onSpeechEnd_returned

SpecStt == SttInit /\ [][SttNext]_vars

SessionInit ==
    /\ config \in Configs
    /\ SessionIdle
    /\ SttIdle
    /\ OtherIdle

SessionNext ==
    \/ submit
    \/ handleScreenshotSubmit
    \/ \E c \in 1..nCalls : chunk(c)
    \/ \E c \in 1..nCalls : streamEnd(c)
    \/ \E c \in 1..nCalls : streamError(c)
    \/ cancel
    \/ reset
    \/ onSpeechEnd
    \/ \E c \in 1..nCalls : transcribed(c)

SpecSession == SessionInit /\ [][SessionNext]_vars

\* The hook with the settings changing under it.
SubmitNext ==
    \/ submit
    \/ handleScreenshotSubmit
    \/ \E c \in 1..nCalls : chunk(c)
    \/ \E c \in 1..nCalls : streamEnd(c)
    \/ \E c \in 1..nCalls : streamError(c)
    \/ cancel
    \/ settingsChanged

SpecSubmit == SessionInit /\ [][SubmitNext]_vars

\* The hook fed by the voice input, with its pause button.
VoiceNext ==
    \/ togglePause
    \/ onSpeechEnd
    \/ \E c \in 1..nCalls : transcribed(c)
    \/ \E c \in 1..nCalls : chunk(c)
    \/ \E c \in 1..nCalls : streamEnd(c)

SpecVoice == SessionInit /\ [][VoiceNext]_vars

RequestInit == SttIdle /\ config = "ok" /\ SessionIdle /\ OtherIdle

RequestNext ==
    \/ fetchSTT_build
    \/ ultraFastSTT_build
    \/ accessField

SpecRequest == RequestInit /\ [][RequestNext]_vars

PoolInit == SttIdle /\ config = "ok" /\ SessionIdle /\ OtherIdle

PoolNext ==
    \/ \E o \in Origins : ultraFastFetch(o)
    \/ \E i \in 1..Len(requests) : ultraFastFetch_settle(i)
    \/ \E i \in 1..Len(requests) : ultraFastFetch_timer(i)
    \/ \E o \in Origins : ultraWarmConnection(o)
    \/ \E i \in 1..Len(requests) : ultraWarmConnection_settle(i)
    \/ cleanup
    \/ advance
    \/ getCachedResponse

SpecPool == PoolInit /\ [][PoolNext]_vars

CacheInit == SttIdle /\ config = "ok" /\ SessionIdle /\ OtherIdle

CacheNext ==
    \/ advance
    \/ cacheResponse
    \/ getCachedResponse

SpecCache == CacheInit /\ [][CacheNext]_vars

\* A cache that CacheLimit earlier cacheResponse calls have filled: one
\* single-character prompt each, the first of them stored at time 0, the
\* others FetchTimeout later, which is now.
FullCache(first) ==
    {[key |-> hashString(<<c>>),
      response |-> [provider |-> "openai", model |-> "m1", prompt |-> <<c>>],
      timestamp |-> IF c = first THEN 0 ELSE FetchTimeout,
      ttl |-> DefaultTtl] : c \in 1..CacheLimit}

FullCacheInit ==
    /\ SttIdle /\ config = "ok" /\ SessionIdle
    /\ ReqIdle /\ SetIdle /\ StoreIdle /\ DecIdle /\ UiIdle
    /\ now = FetchTimeout /\ nextCleanup = CleanupInterval /\ advances = 0
    /\ CONNECTION_POOL = [o \in Origins |-> NoEntry]
    /\ requests = <<>> /\ nextCtl = 1 /\ abortedControllers = {}
    /\ \E first \in {1, CacheLimit} : RESPONSE_CACHE = FullCache(first)
    /\ stores = 0 /\ lookup = <<>>

SpecFullCache == FullCacheInit /\ [][CacheNext]_vars

\* The window before AppProvider is mounted, with what earlier sessions and
\* the user left in the storage.
SettingsInit ==
    /\ SttIdle /\ config = "ok" /\ SessionIdle /\ ReqIdle /\ PoolIdle
    /\ StoreIdle /\ DecIdle /\ UiIdle
    /\ mounted = FALSE
    /\ storage \in {Storage(ai, custom, stt) :
                       ai \in StoredAi, custom \in CustomLists, stt \in StoredStt}
    /\ customAiProviders = <<>>
    /\ selectedAIProvider = NoSel /\ selectedSttProvider = NoSel
    /\ prevAIProviderRef = "" /\ listing = <<>> /\ lastStep = "none"
    /\ loaded = "none" /\ lastArg = <<>> /\ boundaryItem = NoItem

SettingsNext ==
    \/ mount
    \/ handleStorageChange
    \/ selectProvider
    \/ submitApiKey
    \/ removeApiKey
    \/ changeModel
    \/ submitSTTApiKey
    \/ resetToGeminiProvider
    \/ fetchModelsForProvider

SpecSettings == SettingsInit /\ [][SettingsNext]_vars

\* The setters called by any consumer of the context, and the error boundary.
GuardNext ==
    \/ mount
    \/ selectProvider
    \/ submitSTTApiKey
    \/ useApp_onSetSelectedAIProvider
    \/ useApp_onSetSelectedSttProvider
    \/ componentDidCatch

SpecGuard == SettingsInit /\ [][GuardNext]_vars

StoreInit == SttIdle /\ config = "ok" /\ SessionIdle /\ OtherIdle

StoreNext ==
    \/ \E key \in STORAGE_KEYS : setItem(key)
    \/ saveNote
    \/ savePDFToPersistentStorage
    \/ handleDeleteAllChatsConfirm
    \/ clearAllAppData

SpecStore == StoreInit /\ [][StoreNext]_vars

FilesNext ==
    \/ handleFileSelect
    \/ handlePaste
    \/ addFile
    \/ handleScreenshotSubmit_manual
    \/ removeFile
    \/ clearFiles

SpecFiles == StoreInit /\ [][FilesNext]_vars

NotesNext ==
    \/ tick
    \/ saveNote
    \/ updateNote
    \/ deleteNote

SpecNotes == StoreInit /\ [][NotesNext]_vars

Streams == UNION {[1..n -> StreamChars] : n \in 0..MaxStream}

DecoderInit ==
    /\ SttIdle /\ config = "ok" /\ SessionIdle
    /\ ReqIdle /\ PoolIdle /\ SetIdle /\ StoreIdle /\ UiIdle
    /\ stream \in Streams
    /\ pos = 0 /\ buffer = <<>> /\ deltas = <<>> /\ fullResponse = <<>>
    /\ splitRead = FALSE /\ closed = FALSE

DecoderNext ==
    \/ \E n \in 1..MaxStream : read(n)
    \/ close

SpecDecoder == DecoderInit /\ [][DecoderNext]_vars

\* ------------------------------------------------------------------ claims
Last(seq) == seq[Len(seq)]
PollsSent == Cardinality({i \in 1..Len(sent) : sent[i].req = "poll"})
PollLoop == {"sm_poll", "sm_sleep", "aai_poll", "aai_sleep"}
NonTerminal(st) == st \in {"queued", "processing", "running", "notfound"}
TerminalSuccess(st) == st \in {"completed", "done"}
TerminalFailure(st) == st \in {"error", "rejected", "failed"}
IsFailure(r) == r.how \in {"return", "throw"} /\ r.tag # ""

\* The transcript of the segments the vendor delivered: AssemblyAI's text as
\* it is, the Speechmatics segments joined by single spaces, outer blanks off.
Transcript ==
    IF provider.id = "assemblyai-stt" THEN heard[1] ELSE trim(joinSpace(heard))

\* C1: a job whose status endpoint answers with non-terminal statuses and then
\* with a terminal-success status that carries its transcript ends Completed,
\* returning the transcript, with one poll request per answer; while every
\* answer so far is non-terminal the job is still in the poll loop; and a job
\* whose first poll answer is a terminal failure ends Failed after that single
\* poll request.
C1_JobPollerReachesTerminal ==
    /\ (/\ polls # <<>>
        /\ \A i \in 1..Len(polls) : NonTerminal(polls[i]))
       => pc \in PollLoop /\ result = NoResult
    /\ (/\ polls # <<>>
        /\ TerminalSuccess(Last(polls))
        /\ \A i \in 1..(Len(polls) - 1) : NonTerminal(polls[i]))
       => /\ pc = "done"
          /\ result = RetText(Transcript)
          /\ PollsSent = Len(polls)
    /\ (polls # <<>> /\ TerminalFailure(polls[1]))
       => /\ pc = "done"
          /\ Len(polls) = 1 /\ PollsSent = 1
          /\ result.how = "return"
          /\ result.tag \in {"AssemblyAI transcription error",
                             "Transcription job failed"}

C1_Witness ==
    /\ polls = <<"queued", "queued", "completed">>
    /\ pc = "done" /\ result = RetText(<<"a">>)

\* C2: at every moment at most one call of the session is in flight.
C2_AtMostOneActiveCall ==
    Cardinality({c \in 1..nCalls : InFlight(c)}) <= 1

\* C3: once call B has been started, a call A that B superseded delivers no
\* further delta.
C3_SupersededCallIsSilent ==
    [][\A c \in 1..nCalls :
          (abortControllerRef # 0 /\ c # abortControllerRef)
          => calls'[c].chunks = calls[c].chunks]_vars

\* C4: after cancel() or reset(), until a new call is started, the displayed
\* response does not grow.
C4_NoDeltaAfterCancel ==
    [][(abortControllerRef = 0 /\ abortControllerRef' = 0)
       => Len(response') <= Len(response)]_vars

\* C5: after the user cancelled while the job was in the poll loop, no further
\* request is issued.
C5_CancelReachesPollLoop ==
    [][(cancelledAt \in PollLoop) => (sent' = sent)]_vars

\* C6: a call that has ended handed its outcome to the caller as a returned
\* value, never as an exception.
C6_FailuresAreReturned ==
    pc = "done" => result.how = "return"

\* C7: every non-2xx answer makes the call return a failure value that holds
\* the status code, the status text and the body excerpt that could be read.
C7_Non2xxIsFailureValue ==
    \A i \in 1..Len(failures) :
        failures[i].status # 0
        => /\ pc = "done"
           /\ result.how = "return" /\ result.tag # ""
           /\ result.status = failures[i].status
           /\ result.statusText = StatusText(failures[i].status)
           /\ result.body = failures[i].body

\* C8: a call with a descriptor whose body encoding is not multipart-form,
\* JSON or raw bytes returns a configuration failure and issues no request.
C8_UnknownBodyTypeFailsFast ==
    (provider # NoProvider /\ provider.bodyType \notin BodyTypes /\ pc # "start")
    => /\ sent = <<>>
       /\ pc = "done"
       /\ result = Ret("Unsupported body type", provider.bodyType)

\* The outcomes a call ends with after a plain network failure.
NetworkFailureResults ==
    {Ret(tag, ErrorMessage(rej)) :
        tag \in {"Network error during API request",
                 "Network error during polling",
                 "AssemblyAI upload error",
                 "AssemblyAI transcript submission error",
                 "AssemblyAI polling error"},
        rej \in {r \in Rejections : r.cause = "network"}}
    \cup {Throw(tag, 0, "network") : tag \in {"Error", "value"}}

\* C9: the outcome of a call that ended on a timeout is not an outcome a plain
\* network failure produces.
C9_TimeoutIsDistinguishable ==
    (pc = "done" /\ rejCause = "timeout") => result \notin NetworkFailureResults

\* C10 as stated: a request that ended in a rejection or a non-2xx status is
\* not sent again, and the call has ended with that failure.
C10_NoRequestSentAgain ==
    \A i \in 1..Len(failures) :
        /\ Len(sent) = failures[i].nSent
        /\ pc = "done" /\ IsFailure(result)

\* C10 as amended: the same, except for a Speechmatics transcript poll that
\* was answered 404, after which the loop waits and polls again.
C10_NoRetryButNotFoundPoll ==
    \A i \in 1..Len(failures) :
        \/ /\ failures[i].req = "poll" /\ failures[i].status = 404
           /\ provider.id = "speechmatics-stt"
        \/ /\ i = Len(failures)
           /\ Len(sent) = failures[i].nSent
           /\ pc = "done" /\ IsFailure(result)

C10_Witness ==
    /\ Len(failures) = 2
    /\ failures[1].status = 404 /\ failures[2].status = 500
    /\ pc = "done" /\ result.tag = "Polling failed"

\* C11: a request built for a descriptor that declares a header strategy and a
\* query parameter for the key carries the key in a header and not in the
\* query string.
C11_HeaderAuthTakesPrecedence ==
    (/\ request.via # "none" /\ ~request.refused
     /\ request.desc.authType \in {"bearer", "custom-header"}
     /\ request.desc.authParam # "")
    => request.keyHeaders # {} /\ ~request.keyInQuery

\* The proper prefixes of a path.
Intermediates(p) == {SubSeq(p, 1, n) : n \in 1..(Len(p) - 1)}

\* C19: for an object and a path that does not run through a scalar of it,
\* get after set gives the value set, and every intermediate container of the
\* path exists afterwards.
C19_GetAfterSet ==
    (accessed # <<>> /\ ~Blocked(accessed[1].obj, ParsePath(accessed[1].path)))
    => /\ accessed[1].got = accessed[1].val
       /\ \A q \in Intermediates(ParsePath(accessed[1].path)) :
              \E l \in accessed[1].after : l.path # q /\ IsPrefix(q, l.path)

C19_Witness ==
    /\ accessed # <<>>
    /\ accessed[1].obj = {Leaf(<<"a">>, <<1>>)}
    /\ accessed[1].path = <<"b", "[", "0", "]", ".", "a">>
    /\ accessed[1].got = <<3>>

\* C20: a request built for a descriptor with JSON body encoding and an audio
\* field path holds the base64 of the audio at that path of a JSON body, next
\* to the static fields the path does not replace.
C20_JsonBodyHoldsAudio ==
    (/\ request.via # "none"
     /\ request.desc.bodyType = "json" /\ request.desc.audioKey # <<>>
     /\ ~Blocked(request.desc.fields, ParsePath(request.desc.audioKey)))
    => /\ ~request.refused /\ request.body.kind = "json"
       /\ getByPath(request.body.json, request.desc.audioKey)
             = Base64(request.audio)
       /\ \A l \in request.desc.fields :
              ~IsPrefix(ParsePath(request.desc.audioKey), l.path)
              => l \in request.body.json

\* C12: no request that is still running is cancelled by the cleanup.
C12_CleanupAbortsNoRequest ==
    \A i \in 1..Len(requests) : requests[i].state # "aborted"

\* C13: a response returned from the cache was stored for the same provider
\* and model as the ask it is returned to.
C13_CacheKeyHoldsProviderAndModel ==
    (lookup # <<>> /\ lookup[1].hit)
    => /\ lookup[1].response.provider = lookup[1].ask.provider
       /\ lookup[1].response.model = lookup[1].ask.model

FetchCalls == {i \in 1..Len(requests) : requests[i].kind = "fetch"}

\* The outcome of an ultraFastFetch call as what happened to its request
\* decides it.
OutcomeOf(answer) ==
    CASE answer = "response" -> "return response"
      [] answer = "reject" -> "throw rejection"
      [] answer = "timeout" -> "throw abort"
      [] OTHER -> "throw TypeError"

C15_SelectedProviderResolvesModel ==
    (selectedAIProvider.provider # "" /\ selectedAIProvider.apiKey # "")
    => ResolvedModel # ""

\* C16: no two entries of the combined registry have the same id.
C16_ProviderIdsUnique ==
    \A i, j \in 1..Len(allAiProviders) :
        i # j => allAiProviders[i].id # allAiProviders[j].id

AiUserSteps ==
    {"selectProvider", "submitApiKey", "removeApiKey", "changeModel",
     "onSetSelectedAIProvider"}
SttUserSteps == {"submitSTTApiKey", "onSetSelectedSttProvider"}
LoadSteps == {"mount", "handleStorageChange"}

\* C17: the selected AI provider changes only in a step of the user on the AI
\* selection, the selected STT provider only in a step of the user on the
\* STT selection, or either when the persisted configuration is loaded.
C17_SelectionChangesOnlyByItsUser ==
    [][/\ (selectedAIProvider' # selectedAIProvider)
          => (lastStep' \in AiUserSteps \cup LoadSteps)
       /\ (selectedSttProvider' # selectedSttProvider)
          => (lastStep' \in SttUserSteps \cup LoadSteps)]_vars

\* C18: a model listing answered with 401 leaves an error and not an empty
\* list, one answered with 200 and no models leaves the empty list.
C18_ListingErrorIsNotEmptyList ==
    listing # <<>>
    => /\ (listing[1].status = 401)
          => (listing[1].availableModels.kind = "error")
       /\ (listing[1].status = 200 /\ listing[1].models = <<>>)
          => (listing[1].availableModels = [kind |-> "list", models |-> <<>>])

\* The state of the job of a transcription call: none before the vendor has
\* accepted the job, Submitted until the first status request goes out,
\* Polling while the loop runs, Completed or Failed once the call has handed
\* its value to the caller.
JobState ==
    IF result # NoResult
    THEN IF polls = <<>> THEN "none"
         ELSE IF result.how = "return" /\ result.tag = "" THEN "Completed"
         ELSE "Failed"
    ELSE IF pc \in PollLoop
         THEN IF PollsSent = 0 THEN "Submitted" ELSE "Polling"
         ELSE "none"

JobTerminal(st) == st \in {"Completed", "Failed", "TimedOut"}

JobMoves ==
    {<<"none", "Submitted">>, <<"none", "Polling">>, <<"Submitted", "Polling">>,
     <<"Polling", "Completed">>, <<"Polling", "Failed">>,
     <<"Polling", "TimedOut">>}

PollerSteps ==
    {<<"main", "sm_poll">>, <<"aai_submit", "aai_sleep">>,
     <<"aai_sleep", "aai_poll">>, <<"sm_poll", "done">>, <<"aai_poll", "done">>}

\* C23: the state of a job changes only along none -> Submitted -> Polling ->
\* {Completed, Failed, TimedOut}, only in a step of the poller, and once it is
\* terminal neither it nor the result changes and no request is issued.
C23_JobMovesForwardOnly ==
    [][/\ (JobState' # JobState)
          => (<<JobState, JobState'>> \in JobMoves /\ <<pc, pc'>> \in PollerSteps)
       /\ JobTerminal(JobState)
          => (JobState' = JobState /\ result' = result /\ sent' = sent)]_vars

C23_Witness ==
    /\ JobState = "Completed" /\ Len(polls) >= 2 /\ cancelledAt # "none"

\* The poll answers that end the loop: a terminal status, or a poll that
\* failed.
EndsLoop(class) ==
    \/ TerminalSuccess(class) \/ TerminalFailure(class)
    \/ class \in {"network", "http", "unparsable", "malformed"}

\* C24: however many non-terminal answers the poller has had, the next poll
\* goes out after the delay, and a call that ended in the loop ended on a
\* terminal status or on a failed poll.
C24_NoMaximumAttemptCount ==
    /\ (entry = "fetchSTT" /\ pc = "sm_sleep" /\ Len(polls) < MaxPolls)
       => ENABLED speechmaticsDelay
    /\ (entry = "fetchSTT" /\ pc = "aai_sleep" /\ Len(polls) < MaxPolls)
       => ENABLED assemblyDelay
    /\ (pc = "done" /\ polls # <<>>) => EndsLoop(Last(polls))

C24_Witness ==
    /\ Len(polls) = MaxPolls /\ pc \in {"sm_sleep", "aai_sleep"}
    /\ \A i \in 1..Len(polls) : NonTerminal(polls[i])

\* C27: a poll answer that is neither a terminal success nor a terminal
\* failure leaves the job in the loop, and a status request answered 404 (not
\* yet found) is never what the call ends with.
C27_NotYetFoundPollsAgain ==
    /\ (polls # <<>> /\ NonTerminal(Last(polls))) => pc \in PollLoop
    /\ \A i \in 1..Len(failures) :
          (failures[i].req = "poll" /\ failures[i].status = 404)
          => ~(pc = "done" /\ i = Len(failures)
               /\ failures[i].nSent = Len(sent) /\ result.status = 404)

\* The request the three-step protocol issues in the i-th place.
StepAt(i) == IF i = 1 THEN "upload" ELSE IF i = 2 THEN "submit" ELSE "poll"

\* C25: the requests of the three-step protocol go out in the order upload,
\* submit, poll; the submit request names the URL the upload answered, the
\* status requests name the id the submit answered; and after a step failed or
\* answered without its handle no later step is started.
C25_UploadSubmitPollInOrder ==
    (entry = "fetchSTT" /\ provider.id = "assemblyai-stt")
    => /\ \A i \in 1..Len(sent) : sent[i].req = StepAt(i)
       /\ (Len(sent) >= 2)
          => (job.upload_url # "" /\ job.audio_url = job.upload_url)
       /\ (Len(sent) >= 3) => (job.id # "" /\ job.polled = job.id)
       /\ \A i \in 1..Len(failures) :
             (failures[i].req \in {"upload", "submit"})
             => (pc = "done" /\ Len(sent) = failures[i].nSent)
       /\ (pc = "done" /\ job.upload_url = "") => (Len(sent) <= 1)
       /\ (pc = "done" /\ job.id = "") => (Len(sent) <= 2)

C25_Witness ==
    /\ provider.id = "assemblyai-stt" /\ Len(sent) >= 4
    /\ job.audio_url = "cdn/2" /\ job.polled = "j2"
    /\ pc = "done" /\ result.tag = ""

C28_LoadedSelectionIsInRegistry ==
    (lastStep \in LoadSteps)
    => /\ selectedAIProvider.provider \in Ids(allAiProviders)
       /\ (loaded \in {"corrupt", "malformed", "unknown"})
          => (selectedAIProvider = Gemini /\ storage.ai = Stored(Gemini))

C28_Witness ==
    /\ lastStep = "mount" /\ loaded = "unknown"
    /\ customAiProviders # <<>> /\ selectedAIProvider = Gemini

\* C29: resetToGemini() leaves the Gemini default as the stored selection and
\* no stored custom AI provider, and the load that follows it selects Gemini.
C29_ResetToGeminiIsExact ==
    [][/\ (lastStep' = "resetToGeminiProvider")
          => (storage'.ai = Stored(Gemini) /\ storage'.custom = <<>>)
       /\ (lastStep = "resetToGeminiProvider" /\ lastStep' = "mount")
          => (selectedAIProvider' = Gemini /\ customAiProviders' = <<>>
              /\ storage'.ai = Stored(Gemini) /\ loaded' = "known")]_vars

C29_Witness ==
    /\ lastStep = "resetToGeminiProvider"
    /\ selectedAIProvider.provider = "custom-1" /\ customAiProviders # <<>>
    /\ storage.ai = Stored(Gemini) /\ storage.custom = <<>>
    /\ ENABLED mount

\* C30: after clearAppData() no item of the application is left in the local
\* storage: settings, system prompt, chat history, notes and PDFs are gone.
C30_ClearAppDataLeavesNothing ==
    (lastOp = "clearAllAppData") => (localStorage \cap AppKeys = {})

\* The frames of the whole stream that parse, by position.
ValidAt == {i \in 1..Len(Frames(stream)) : Valid(Frames(stream)[i])}

\* C21: a frame that does not parse is skipped and the frames after it are
\* still emitted: at the close there is one delta for every frame that
\* parses, and a stream of a valid, a malformed and a valid frame yields the
\* two valid deltas in order.
C21_MalformedFrameIsSkipped ==
    closed =>
        LET frames == Frames(stream)
        IN  /\ Len(deltas) = Cardinality(ValidAt)
            /\ \A i \in ValidAt :
                  deltas[Cardinality({j \in ValidAt : j <= i})] = frames[i]
            /\ (/\ Len(frames) = 3 /\ Valid(frames[1]) /\ ~Valid(frames[2])
                /\ Valid(frames[3]))
               => (/\ deltas = <<frames[1], frames[3]>>
                   /\ fullResponse = frames[1] \o frames[3])

C21_Witness ==
    /\ closed /\ stream = <<"a", "\n", "x", "\n", "b", "\n">>
    /\ deltas = <<(<<"a">>), (<<"b">>)>>

\* C22: the deltas emitted do not depend on how the stream is split into
\* reads: after any reads they are the deltas of one read of everything
\* received, and so is the remainder kept.
C22_SplitIndependent ==
    LET whole == Decode(<<>>, SubSeq(stream, 1, pos))
    IN  deltas = whole.deltas /\ buffer = whole.buffer

C22_Witness ==
    /\ splitRead /\ stream = <<"a", "b", "\n">> /\ pos = 3
    /\ deltas = <<(<<"a", "b">>)>> /\ buffer = <<>>

\* C38: a setter called with a provider id that is not in the registry leaves
\* the selections in memory and the stored selections as they were.
C38_UnknownProviderChangesNothing ==
    [][(/\ lastStep' \in {"onSetSelectedAIProvider", "onSetSelectedSttProvider"}
        /\ lastArg' = <<"ghost">>)
       => UNCHANGED <<selectedAIProvider, selectedSttProvider, storage>>]_vars

C38_Witness ==
    /\ lastStep = "onSetSelectedAIProvider" /\ lastArg = <<"ghost">>
    /\ selectedAIProvider.provider = "openai"
    /\ storage.ai = Stored(selectedAIProvider)

\* C31: a provider-related error caught by the error boundary leaves the
\* Gemini default as the stored selection that loadData reads, and the load
\* that follows selects Gemini.
C31_CaughtErrorResetsStoredSelection ==
    [][/\ (lastStep' = "componentDidCatch" /\ ProviderRelated(lastArg'))
          => (storage'.ai = Stored(Gemini))
       /\ (/\ lastStep = "componentDidCatch" /\ ProviderRelated(lastArg)
           /\ lastStep' = "mount")
          => (selectedAIProvider' = Gemini)]_vars

\* What a submit that starts a call changes besides the error.
CallState == <<abortControllerRef, abortedCtl, calls, nCalls, isLoading,
               response>>

\* C32: submit and handleScreenshotSubmit start nothing, abort nothing and
\* leave isLoading alone when the provider or key is empty, the provider is
\* unknown or no model resolves, and set the error; submit with a blank input
\* and valid settings changes nothing.
C32_GuardedSubmitStartsNothing ==
    [][/\ ((submit \/ handleScreenshotSubmit) /\ config # "ok")
          => (UNCHANGED CallState /\ error' = ConfigError /\ error' # "")
       /\ (submitInput(TRUE) /\ config = "ok")
          => UNCHANGED <<CallState, error>>]_vars

C32_Witness ==
    /\ config = "unknown" /\ error = "Invalid provider selected"
    /\ isLoading /\ abortControllerRef = 1 /\ abortedCtl = {}
    /\ nCalls = 1 /\ calls[1].state = "streaming"

\* C33: when the fetchSTT the speech handler awaited returned a failure, the
\* handler starts no chat call and shows the failure as the error.
C33_FailedTranscriptionIsNotSubmitted ==
    [][(onSpeechEnd_returned /\ FailedTranscription(result))
       => (nCalls' = 0 /\ ~isLoading' /\ error' # "")]_vars

C35_StaleCallLeavesLoading ==
    [][\A c \in 1..nCalls :
          (/\ streamEnd(c) \/ streamError(c)
           /\ abortControllerRef # 0 /\ c # abortControllerRef
           /\ calls[abortControllerRef].state = "streaming")
          => (isLoading' = isLoading /\ error' = error)]_vars

\* C36: a call that completes with a non-empty response appends its exchange
\* (the user message and the assistant message) to the conversation and keeps
\* every exchange saved before.
C36_CompletedCallAppendsExchange ==
    [][\A c \in 1..nCalls :
          (streamEnd(c) /\ calls[c].chunks > 0)
          => (conversationHistory' = Append(conversationHistory, c))]_vars

\* C37: the cache never holds more than CacheLimit entries, the entry that a
\* store removes on overflow has the oldest timestamp, and a lookup returns
\* no entry whose age has reached its ttl.
C37_CacheIsBoundedAndFresh ==
    [][/\ Cardinality(RESPONSE_CACHE') <= CacheLimit
       /\ \A e \in RESPONSE_CACHE \ RESPONSE_CACHE' :
             \/ \E f \in RESPONSE_CACHE' : f.key = e.key
             \/ \A f \in RESPONSE_CACHE' : e.timestamp <= f.timestamp
       /\ (lookup' # lookup /\ lookup'[1].hit)
          => \E e \in RESPONSE_CACHE :
                /\ e.key = hashString(lookup'[1].ask.prompt)
                /\ e.response = lookup'[1].response
                /\ now - e.timestamp < e.ttl]_vars

C37_Witness ==
    /\ stores = 1 /\ Cardinality(RESPONSE_CACHE) = CacheLimit
    /\ Cached(hashString(<<104, 105>>)) # {}
    /\ Cached(hashString(<<CacheLimit>>)) = {}
    /\ lookup # <<>> /\ lookup[1].hit

\* C39: the stored notes have pairwise distinct ids, so that a delete or an
\* update by id touches one note.
C39_NoteIdsAreDistinct ==
    \A i, j \in 1..Len(notes) : (i # j) => (notes[i].id # notes[j].id)

\* C34: at most MAX_FILES files are attached, whatever the selections, pastes,
\* manual screenshots and removals were.
C34_AtMostMaxFilesAttached == Len(attachedFiles) <= MAX_FILES

====
